---- MODULE Spec2Model ----
(***************************************************************************)
(* Session negotiation of the two-peer video call: the signaling server    *)
(* (socket.io rooms, join / relay) and the useWebRTC hook of each browser  *)
(* client (role, room-ready, offer / answer / candidate handling, the      *)
(* pending offer and pending candidate buffers, the gestures data          *)
(* channel).                                                               *)
(*                                                                         *)
(* Every asynchronous handler of the hook is split at its awaits.  The     *)
(* awaited RTCPeerConnection calls go through the connection's operations  *)
(* chain (W3C WebRTC 4.4.1.2), which runs them one at a time in call       *)
(* order: ops is that chain; OpResolve and OpReject complete its head and    *)
(* run the code that follows the await.                                    *)
(*                                                                         *)
(* The useGestures hook is modelled from the result of a detection cycle   *)
(* on: processHands with its motion buffers, the raw gesture history and   *)
(* the temporal smoothing, the classifier recognizeGesture with its        *)
(* predicates, and the callbacks registered with onGestureDetected.  A     *)
(* landmark has integer coordinates; a threshold of the source such as     *)
(* tip.y < pip.y - 0.02 is compared after scaling both sides.              *)
(***************************************************************************)
EXTENDS Integers, Sequences, FiniteSets, TLC

\* ------------------------------------------------------------------ bounds
MaxEnv == 3           \* disturbances in one behaviour: reconnects, repeated
                      \* startLocalStream calls, browser failures, and the
                      \* joins, leaves and messages of the other sockets
MaxCands == 1         \* ICE candidates a peer connection discovers
MaxRemoteChans == 1   \* remote data channels announced to a client
MaxSends == 1         \* messages handed to a data channel by sendMessage
MaxFrames == 17       \* detection cycles of the gesture recognition
MaxChanges == 2       \* frames that differ from the frame before them
MaxCallbacks == 3     \* callbacks ever registered with onGestureDetected
MaxPeerCands == 3     \* ICE candidates the peer trickles to a client

\* --------------------------------------------------------------- universe
Clients == {"A", "B"}          \* browsers running the useWebRTC hook
Raws == {"Y", "Z"}             \* any other sockets connected to the server
Sockets == Clients \cup Raws
RoomId == "r1"                 \* the roomId prop of both clients
NewRoomId == "r2"              \* the roomId prop after it changed
Rooms == {"r1", "r2"}
Labels == {"gestures", "chat"}

VARIABLES
  rooms,      \* server: io.sockets.adapter.rooms, room -> set of sockets
  lastJoin,   \* server: what the last 'join' handler computed and emitted
  sockUp,     \* client socket connected
  connects,   \* 'connect' events seen by each client
  upQ,        \* packets client -> server, in emit order
  downQ,      \* packets server -> client, in emit order
  cl,         \* the hook's refs and state, per client
  lastRecv,   \* the packet each client handled last
  env,        \* disturbances so far
  faults      \* browser failures among them

vars == <<rooms, lastJoin, sockUp, connects, upQ, downQ, cl, lastRecv, env, faults>>

\* ------------------------------------------------------------- data shapes
\* an SDP description or an ICE candidate: who made it, its number, whether it
\* carries media tracks, and (an answer) whose offer it answers
NoDesc == [kind |-> "none", from |-> "none", n |-> 0, tracks |-> FALSE, re |-> "none"]
Desc(kind, from, n, tracks, re) ==
  [kind |-> kind, from |-> from, n |-> n, tracks |-> tracks, re |-> re]

NoAck == [roomSize |-> 0, role |-> "none"]
Msg(type, room, data) == [type |-> type, room |-> room, data |-> data, ack |-> NoAck]
AckMsg(roomSize, role) ==
  [type |-> "ack", room |-> "none", data |-> NoDesc,
   ack |-> [roomSize |-> roomSize, role |-> role]]

\* ------------------------------------------------------ useGestures: data
JointCount == 21
KeepFrames == 14
maxHistory == 15
windowSize == 9
MinVotes == 3

\* the milliseconds between two readings of performance.now(): none when the
\* clock has not advanced, else one frame period
Deltas == {0, 40}

\* JavaScript numbers as far as a division produces them
Num(v) == [kind |-> "num", v |-> v]
Infinity == [kind |-> "inf", v |-> 0]
NegInfinity == [kind |-> "-inf", v |-> 0]
NaN == [kind |-> "nan", v |-> 0]
ZeroVelocity == [x |-> Num(0), y |-> Num(0)]

\* multiHandLandmarks[0]: n joints (landmark k of MediaPipe is element k + 1)
\* around a wrist at (2, 3). The thumb is one unit beside the palm and the
\* pinky knuckle one unit on its other side; the fingertips of ext are one
\* unit above the joints below them (a smaller y is higher) and the other
\* fingers are folded; the middle joint of the index finger is at offset tip;
\* the four knuckles are at depth z
HandOf(n, ext, tip, z) ==
  [i \in 1..n |->
     [x |-> IF i = 18 THEN 3
            ELSE IF i \in 2..5 THEN 1
            ELSE IF i = 8 THEN 2 + tip
            ELSE 2,
      y |-> IF (i - 1) \in ext THEN 2 ELSE 3,
      z |-> IF i \in {6, 10, 14, 18} THEN z ELSE 0]]

\* the fingertips stretched out in a fist, a peace sign, an open hand and a
\* hand that shows the middle finger only
Shapes == {{}, {8, 12}, {4, 8, 12, 16, 20}, {12}}
\* the hands a frame may show: the 21 joints of MediaPipe, the same with a
\* joint moved, one joint more, and frames with too few joints (none, too
\* few for the normalisation, too few for the predicates)
Hands ==
  {[joints |-> JointCount, tip |-> 0], [joints |-> JointCount, tip |-> 1],
   [joints |-> JointCount + 1, tip |-> 0],
   [joints |-> 0, tip |-> 0], [joints |-> 17, tip |-> 0], [joints |-> 20, tip |-> 0]}

\* motionState.velocities: ten entries with the wrist moving by the cycle's
\* speed (hundredths of a unit per second) along x, and every other joint at
\* rest
WristMoves(speeds) ==
  [k \in DOMAIN speeds |->
     [j \in 1..JointCount |->
        IF j = 1 THEN [x |-> Num(speeds[k]), y |-> Num(0)] ELSE ZeroVelocity]]
Still == WristMoves(<<0, 0, 0, 0, 0, 0, 0, 0, 0, 0>>)
Waving == WristMoves(<<20, -20, 20, -20, 20, -20, 20, -20, 20, -20>>)
Stopping == WristMoves(<<16, 16, 16, 0, 0, 0, 0, 0, 0, 0>>)
Motions == {Still, Waving, Stopping}

\* a call of a function of the hook on its own: the arguments, and the value
\* it returned once it was called
NoProbe ==
  [set |-> FALSE, landmarks |-> <<>>, velocities |-> <<>>, done |-> FALSE,
   label |-> "", normalized |-> <<>>]
\* a hand held up: its wrist is lower in the image (y grows downwards)
Raised(landmarks, by) == [landmarks EXCEPT ![1].y = @ + by]
\* the arguments of recognizeGesture: the normalised landmarks of a hand with
\* any fingers stretched out, its palm turned either way, level with the
\* wrist or held up, and a motion state
ClassifierProbes ==
  {[NoProbe EXCEPT !.set = TRUE,
                   !.landmarks = Raised(HandOf(JointCount, ext, 0, z), by),
                   !.velocities = velocities] :
     ext \in SUBSET {4, 8, 12, 16, 20}, z \in {-1, 0, 1}, by \in {0, 1},
     velocities \in Motions}

\* the arguments of isStop: an open hand, its palm turned either way or not
\* at all, and 4 to 10 buffered velocity samples in each of which the wrist
\* rests or moves (0.16, above the 0.15 of a moving frame)
SampleCounts == 4..10
WristSpeeds == {0, 16}
StopProbes ==
  {[NoProbe EXCEPT !.set = TRUE,
                   !.landmarks = HandOf(JointCount, {4, 8, 12, 16, 20}, 0, z),
                   !.velocities = WristMoves(speeds)] :
     z \in {-1, 0, 1},
     speeds \in UNION {[1..n -> WristSpeeds] : n \in SampleCounts}}

\* landmarks moved by (tx, ty) after their x and y were multiplied by k
Transformed(landmarks, k, tx, ty) ==
  [i \in DOMAIN landmarks |->
     [x |-> k * landmarks[i].x + tx, y |-> k * landmarks[i].y + ty,
      z |-> landmarks[i].z]]
\* the scalings and translations of a frame
Scalings == {1, 2, 3}
Shifts == {<<0, 0>>, <<1, 2>>, <<-3, 5>>}
\* the argument of normalizeLandmarks: a hand of 21 joints with any fingers
\* stretched out, at any of the scales and places. The distance between its
\* index and pinky knuckles is the whole number k, and every joint is a
\* multiple of k away from the wrist, so the division by the scale is exact
NormalizeProbes ==
  {[NoProbe EXCEPT !.set = TRUE,
                   !.landmarks = Transformed(HandOf(JointCount, ext, 0, 0),
                                             k, t[1], t[2])] :
     ext \in SUBSET {4, 8, 12, 16, 20}, k \in Scalings, t \in Shifts}

\* what onGestureDetected's callbacks are given, and the three values
\* processHands puts on display
NoEvent == [set |-> FALSE, gesture |-> "", text |-> "", confidence |-> 0]

\* motionStateRef, gestureHistoryRef and lastGestureRef as the hook creates
\* them; hasPrev is prevLandmarks !== null, and a prevTimestamp of 0 is the
\* null one; velLog, frameLog and rawLog are the histories of everything that
\* was pushed into each buffer; frames, changes and lastIn bound the input.
\* callbacks is callbacksRef (each registered function has a number of its
\* own, issued counts them); calls lists the callback invocations of the most
\* recent detection cycle and lastEvent is what they were given; threw tells
\* that the most recent call of processHands ended in an exception, and
\* fatalModelError is the flag of the recognition loop
InitGest ==
  [hasPrev |-> FALSE, prevLandmarks |-> <<>>, prevTimestamp |-> 0,
   velocities |-> <<>>, motionHistory |-> <<>>, gestureHistory |-> <<>>,
   lastGesture |-> "",
   velLog |-> <<>>, frameLog |-> <<>>, rawLog |-> <<>>,
   frames |-> 0, changes |-> 0,
   lastIn |-> [set |-> FALSE, joints |-> JointCount, ext |-> {}, tip |-> 0],
   currentGesture |-> "", detectedText |-> "", confidence |-> 0,
   callbacks |-> <<>>, issued |-> 0, calls |-> <<>>, lastEvent |-> NoEvent,
   threw |-> FALSE, fatalModelError |-> FALSE, modelError |-> "none"]

\* what arrives on a data channel, event.data: text that parses as JSON or
\* does not; the parsed value's type, whether it has a truthy data object, and
\* that object's text and confidence, each of which may be absent
Wire(json, type, data, hasText, text, hasConfidence, confidence) ==
  [json |-> json, type |-> type, data |-> data, hasText |-> hasText,
   text |-> text, hasConfidence |-> hasConfidence, confidence |-> confidence]
NoWire == Wire(FALSE, "none", FALSE, FALSE, "", FALSE, 0)
WireMsgs ==
  {Wire(FALSE, "absent", FALSE, FALSE, "", FALSE, 0),
   Wire(TRUE, "absent", FALSE, FALSE, "", FALSE, 0),
   Wire(TRUE, "chat", TRUE, TRUE, "HELLO", TRUE, 90),
   Wire(TRUE, "gesture", FALSE, FALSE, "", FALSE, 0),
   Wire(TRUE, "gesture", TRUE, FALSE, "", FALSE, 0),
   Wire(TRUE, "gesture", TRUE, TRUE, "", TRUE, 0),
   Wire(TRUE, "gesture", TRUE, TRUE, "HELLO", TRUE, 90)}

\* the remote gesture VideoCall displays, null at first
NoGesture == [set |-> FALSE, text |-> "", confidence |-> 0]

NoPc ==
  [gen |-> 0, sig |-> "none", hasLocal |-> FALSE, hasRemote |-> FALSE,
   tracks |-> FALSE, srdAnswers |-> <<>>, room |-> "none"]

InitClient ==
  [roomId |-> RoomId, socketRef |-> TRUE,
   isInitiator |-> FALSE, roomReady |-> FALSE, offerSent |-> FALSE,
   localStream |-> FALSE, pendingOffer |-> NoDesc, pendingCandidates |-> <<>>,
   pcRef |-> FALSE, pc |-> NoPc,
   dataChannelRef |-> 0, chans |-> <<>>,
   isConnected |-> FALSE, error |-> "none", remoteStream |-> FALSE,
   drainDue |-> FALSE,
   ops |-> <<>>, gum |-> 0, mediaCalls |-> 0, candsGen |-> 0, remoteChans |-> 0,
   buffered |-> <<>>, iceCalls |-> <<>>, deferred |-> <<>>, emitted |-> <<>>,
   lastSend |-> "none", dcSent |-> 0,
   mounted |-> TRUE, liveStreams |-> 0, acks |-> 0,
   remoteGesture |-> NoGesture, lastMsg |-> NoWire, gest |-> InitGest,
   probe |-> NoProbe]

\* ================================================================= server
\* server.js:28-29, part_000:40
RoleForMutant(roomSize) == IF roomSize > 2 THEN "caller" ELSE "callee"
RoleFor(roomSize) == IF roomSize >= 2 THEN "caller" ELSE "callee"

\* room-ready goes out exactly at size 2
RoomReadyAtMutant(roomSize) == roomSize >= 2
RoomReadyAt(roomSize) == roomSize = 2

\* io.to(room).emit / socket.to(room).emit: one packet to every target that
\* is a client (the other sockets discard what they receive)
SendTo(q, targets, m) ==
  [c \in Clients |-> IF c \in targets THEN Append(q[c], m) ELSE q[c]]

\* socket.on('join', (roomId, ack) => ...)
ServerJoin(s, r) ==
  LET joined == [rooms EXCEPT ![r] = @ \cup {s}]
      roomSize == Cardinality(joined[r])
      role == RoleFor(roomSize)
      acked == SendTo(downQ, {s}, AckMsg(roomSize, role))
      ready == RoomReadyAt(roomSize)
  IN /\ rooms' = joined
     /\ downQ' = IF ready THEN SendTo(acked, joined[r], Msg("room-ready", r, NoDesc))
                 ELSE acked
     /\ lastJoin' = [sock |-> s, room |-> r, members |-> joined[r],
                     roomSize |-> roomSize, role |-> role,
                     readyTo |-> IF ready THEN joined[r] ELSE {}]

\* ['offer','answer','candidate'].forEach(event => socket.on(event, ...))
ServerRelayToAll(s, m) ==
  /\ downQ' = SendTo(downQ, rooms[m.room], m)
  /\ UNCHANGED <<rooms, lastJoin>>
ServerRelay(s, m) ==
  /\ downQ' = SendTo(downQ, rooms[m.room] \ {s}, m)
  /\ UNCHANGED <<rooms, lastJoin>>

\* ================================================================= client
\* socket.emit(type, roomId, data); emitted is the log of what the hook sent
EmitTo(st, room, type, data) ==
  [st EXCEPT !.emitted = Append(@, Msg(type, room, data))]
Emit(st, type, data) == EmitTo(st, st.roomId, type, data)

\* setupDataChannel: the channel becomes dataChannelRef.current and gets the
\* onopen / onclose / onmessage handlers (chans: the channels that have them)
SetupDataChannel(st, dc) ==
  [st EXCEPT !.chans = Append(@, dc), !.dataChannelRef = Len(st.chans) + 1]

\* createPeerConnection
CreatePeerConnection(st) ==
  LET closedOld ==
        IF st.pcRef
        THEN [st EXCEPT !.pcRef = FALSE,
                        !.chans = [i \in DOMAIN @ |->
                                     IF @[i].gen = st.pc.gen
                                     THEN [@[i] EXCEPT !.state = "closed"] ELSE @[i]]]
        ELSE st
      pc == [NoPc EXCEPT !.gen = st.pc.gen + 1, !.sig = "stable",
                         !.tracks = st.localStream, !.room = st.roomId]
      made == [closedOld EXCEPT !.pc = pc, !.pcRef = TRUE]
  IN IF st.isInitiator
     THEN SetupDataChannel(made, [label |-> "gestures", state |-> "connecting",
                                  gen |-> pc.gen])
     ELSE made

\* a call of an asynchronous RTCPeerConnection method on the current pc: it
\* joins the operations chain; cont names the handler that awaits it
Enqueue(st, op, cont, arg) ==
  [st EXCEPT !.ops = Append(@, [op |-> op, cont |-> cont, arg |-> arg,
                                gen |-> st.pc.gen])]

\* acceptOffer, up to its first await
AcceptOffer(st, offer, cont) ==
  IF ~st.socketRef THEN st
  ELSE LET s1 == IF st.pcRef THEN st ELSE CreatePeerConnection(st)
       IN Enqueue(s1, "srd", cont, offer)

\* createAndSendOffer, up to its first await
CreateAndSendOffer(st) ==
  IF ~st.socketRef THEN st
  ELSE LET s1 == IF st.pcRef THEN st ELSE CreatePeerConnection(st)
       IN Enqueue(s1, "createOffer", "createAndSendOffer", NoDesc)

\* maybeStartCall
MaybeStartCallNoGuard(st) ==
  IF ~st.isInitiator \/ ~st.roomReady \/ ~st.localStream THEN st
  ELSE CreateAndSendOffer([st EXCEPT !.offerSent = TRUE])
MaybeStartCallNoStream(st) ==
  IF ~st.isInitiator \/ ~st.roomReady \/ st.offerSent THEN st
  ELSE CreateAndSendOffer([st EXCEPT !.offerSent = TRUE])
MaybeStartCall(st) ==
  IF ~st.isInitiator THEN st
  ELSE IF ~st.roomReady THEN st
  ELSE IF ~st.localStream THEN st
  ELSE IF st.offerSent THEN st
  ELSE CreateAndSendOffer([st EXCEPT !.offerSent = TRUE])

\* handleOffer
HandleOfferNoDefer(st, offer) == AcceptOffer(st, offer, "acceptOffer")
HandleOffer(st, offer) ==
  IF ~st.localStream THEN [st EXCEPT !.pendingOffer = offer]
  ELSE AcceptOffer(st, offer, "acceptOffer")

\* handleAnswer, up to its await; srdAnswers logs the answers handed to
\* pc.setRemoteDescription
HandleAnswerNoGuard(st, answer) ==
  IF ~st.pcRef THEN st
  ELSE Enqueue([st EXCEPT !.pc.srdAnswers = Append(@, answer)],
               "srd", "handleAnswer", answer)
HandleAnswer(st, answer) ==
  IF ~st.pcRef THEN st
  ELSE IF st.pc.sig # "have-local-offer" THEN st
  ELSE Enqueue([st EXCEPT !.pc.srdAnswers = Append(@, answer)],
               "srd", "handleAnswer", answer)

\* a call of pc.addIceCandidate; iceCalls logs the candidates handed to it
AddIceCandidate(st, cand, cont) ==
  Enqueue([st EXCEPT !.iceCalls = Append(@, [cand |-> cand, via |-> cont])],
          "addIce", cont, cand)

\* handleCandidate, up to its await; buffered is the history of the queue
HandleCandidate(st, cand) ==
  IF ~st.pcRef \/ st.pc.sig = "closed"
  THEN [st EXCEPT !.pendingCandidates = Append(@, cand),
                  !.buffered = Append(@, cand)]
  ELSE AddIceCandidate(st, cand, "handleCandidate")

\* one turn of the while loop of processPendingCandidates
DrainLoopLifo(st) ==
  IF st.pendingCandidates = <<>> THEN st
  ELSE LET k == Len(st.pendingCandidates)
       IN AddIceCandidate(
            [st EXCEPT !.pendingCandidates = SubSeq(@, 1, k - 1)],
            st.pendingCandidates[k], "drain")
DrainLoop(st) ==
  IF st.pendingCandidates = <<>> THEN st
  ELSE AddIceCandidate([st EXCEPT !.pendingCandidates = Tail(@)],
                       Head(st.pendingCandidates), "drain")

\* processPendingCandidates, up to its first await
ProcessPendingCandidates(st) ==
  IF ~st.pcRef \/ st.pc.sig = "closed" THEN st ELSE DrainLoop(st)

\* ------------------------------------------------ RTCPeerConnection (browser)
\* whether the browser can carry out operation o on peer connection pc
\* (W3C WebRTC 4.4.1.5 / 4.4.1.6: the signaling states a description may be
\* set in; addIceCandidate needs a remote description)
Legal(o, pc) ==
  /\ o.gen = pc.gen
  /\ pc.sig # "closed"
  /\ CASE o.op = "createOffer" -> TRUE
       [] o.op = "createAnswer" -> pc.sig = "have-remote-offer"
       [] o.op = "sld" /\ o.arg.kind = "offer" -> pc.sig \in {"stable", "have-local-offer"}
       [] o.op = "sld" /\ o.arg.kind = "answer" -> pc.sig = "have-remote-offer"
       [] o.op = "srd" /\ o.arg.kind = "offer" ->
            pc.sig \in {"stable", "have-remote-offer", "have-local-offer"}
       [] o.op = "srd" /\ o.arg.kind = "answer" -> pc.sig = "have-local-offer"
       [] o.op = "addIce" -> pc.hasRemote
       [] OTHER -> FALSE

\* a remote offer while a local offer is pending: browsers with implicit
\* rollback accept it, the others reject it
BrowserDependent(o, pc) ==
  o.op = "srd" /\ o.arg.kind = "offer" /\ pc.sig = "have-local-offer"

\* the peer connection after operation o succeeded
Applied(o, pc) ==
  CASE o.op = "sld" /\ o.arg.kind = "offer" ->
         [pc EXCEPT !.sig = "have-local-offer", !.hasLocal = TRUE]
    [] o.op = "sld" /\ o.arg.kind = "answer" ->
         [pc EXCEPT !.sig = "stable", !.hasLocal = TRUE]
    [] o.op = "srd" /\ o.arg.kind = "offer" ->
         [pc EXCEPT !.sig = "have-remote-offer", !.hasRemote = TRUE]
    [] o.op = "srd" /\ o.arg.kind = "answer" ->
         [pc EXCEPT !.sig = "stable", !.hasRemote = TRUE]
    [] o.op = "addIce" -> pc
    [] OTHER -> pc

\* pc.ontrack where the change of remoteStream re-runs no effect
OnTrackNoEffect(st) == [st EXCEPT !.remoteStream = TRUE]

\* pc.ontrack, fired while a remote description with tracks is applied:
\* setRemoteStream(stream); a changed remoteStream re-runs the effect that
\* calls processPendingCandidates
OnTrack(st) ==
  IF st.remoteStream THEN st
  ELSE [st EXCEPT !.remoteStream = TRUE, !.drainDue = TRUE]

\* the code after the await of a resolved operation, where a description is
\* emitted as soon as it is created
ResolvedEmitFirst(st, o, self) ==
  CASE o.cont \in {"acceptOffer", "acceptOfferThenStart"} /\ o.op = "srd" ->
         Enqueue(st, "createAnswer", o.cont, o.arg)
    [] o.cont \in {"acceptOffer", "acceptOfferThenStart"} /\ o.op = "createAnswer" ->
         LET answer == Desc("answer", self, o.arg.n, st.pc.tracks, o.arg.from)
         IN Enqueue(Emit(st, "answer", answer), "sld", o.cont, answer)
    [] o.cont = "acceptOfferThenStart" /\ o.op = "sld" -> MaybeStartCall(st)
    [] o.cont = "createAndSendOffer" /\ o.op = "createOffer" ->
         LET offer == Desc("offer", self, 1, st.pc.tracks, "none")
         IN Enqueue(Emit(st, "offer", offer), "sld", o.cont, offer)
    [] o.cont = "drain" -> DrainLoop(st)
    [] OTHER -> st

\* the code after the await of a resolved operation
Resolved(st, o, self) ==
  CASE o.cont \in {"acceptOffer", "acceptOfferThenStart"} /\ o.op = "srd" ->
         Enqueue(st, "createAnswer", o.cont, o.arg)
    [] o.cont \in {"acceptOffer", "acceptOfferThenStart"} /\ o.op = "createAnswer" ->
         Enqueue(st, "sld", o.cont,
                 Desc("answer", self, o.arg.n, st.pc.tracks, o.arg.from))
    [] o.cont = "acceptOffer" /\ o.op = "sld" -> Emit(st, "answer", o.arg)
    [] o.cont = "acceptOfferThenStart" /\ o.op = "sld" ->
         MaybeStartCall(Emit(st, "answer", o.arg))
    [] o.cont = "createAndSendOffer" /\ o.op = "createOffer" ->
         Enqueue(st, "sld", o.cont, Desc("offer", self, 1, st.pc.tracks, "none"))
    [] o.cont = "createAndSendOffer" /\ o.op = "sld" -> Emit(st, "offer", o.arg)
    [] o.cont = "drain" -> DrainLoop(st)
    [] OTHER -> st

\* the catch block of a rejected operation
RejectedRetry(st, o) ==
  CASE o.cont = "acceptOffer" -> [st EXCEPT !.error = "Failed to handle offer"]
    [] o.cont = "acceptOfferThenStart" ->
         MaybeStartCall([st EXCEPT !.error = "Failed to handle offer"])
    [] o.cont = "createAndSendOffer" ->
         [st EXCEPT !.error = "Failed to start call", !.offerSent = FALSE]
    [] o.cont = "handleAnswer" -> [st EXCEPT !.error = "Failed to handle answer"]
    [] o.cont = "drain" -> DrainLoop(st)
    [] OTHER -> st
RejectedResend(st, o) ==
  CASE o.cont = "acceptOffer" -> [st EXCEPT !.error = "Failed to handle offer"]
    [] o.cont = "acceptOfferThenStart" ->
         MaybeStartCall([st EXCEPT !.error = "Failed to handle offer"])
    [] o.cont = "createAndSendOffer" ->
         CreateAndSendOffer([st EXCEPT !.error = "Failed to start call"])
    [] o.cont = "handleAnswer" -> [st EXCEPT !.error = "Failed to handle answer"]
    [] o.cont = "drain" -> DrainLoop(st)
    [] OTHER -> st
Rejected(st, o) ==
  CASE o.cont = "acceptOffer" -> [st EXCEPT !.error = "Failed to handle offer"]
    [] o.cont = "acceptOfferThenStart" ->
         MaybeStartCall([st EXCEPT !.error = "Failed to handle offer"])
    [] o.cont = "createAndSendOffer" -> [st EXCEPT !.error = "Failed to start call"]
    [] o.cont = "handleAnswer" -> [st EXCEPT !.error = "Failed to handle answer"]
    [] o.cont = "drain" -> DrainLoop(st)
    [] OTHER -> st

\* dc.onopen / dc.onclose of a channel that went through setupDataChannel
OnOpen(st, i) ==
  [st EXCEPT !.chans[i].state = "open", !.isConnected = TRUE]
OnClose(st, i) ==
  [st EXCEPT !.chans[i].state = "closed", !.isConnected = FALSE]

\* onDataChannelMessage of VideoCall: text || 'Unknown gesture',
\* confidence || 0
OnDataChannelMessageAnyData(st, m) ==
  IF m.type = "gesture"
  THEN [st EXCEPT !.remoteGesture =
          [set |-> TRUE,
           text |-> IF m.hasText /\ m.text # "" THEN m.text ELSE "Unknown gesture",
           confidence |-> IF m.hasConfidence THEN m.confidence ELSE 0]]
  ELSE st
OnDataChannelMessage(st, m) ==
  IF m.type = "gesture" /\ m.data
  THEN [st EXCEPT !.remoteGesture =
          [set |-> TRUE,
           text |-> IF m.hasText /\ m.text # "" THEN m.text ELSE "Unknown gesture",
           confidence |-> IF m.hasConfidence THEN m.confidence ELSE 0]]
  ELSE st

\* dc.onmessage: JSON.parse in a try whose catch only logs; lastMsg is the
\* last event.data the handler ran for
OnMessage(st, w) ==
  LET s1 == [st EXCEPT !.lastMsg = w]
  IN IF w.json THEN OnDataChannelMessage(s1, w) ELSE s1

\* pc.ondatachannel
OnDataChannelAnyLabel(st, label) ==
  SetupDataChannel(st, [label |-> label, state |-> "connecting", gen |-> st.pc.gen])
OnDataChannel(st, label) ==
  IF label = "gestures"
  THEN SetupDataChannel(st, [label |-> label, state |-> "connecting",
                             gen |-> st.pc.gen])
  ELSE st

\* sendMessage: lastSend is what the last call returned, dcSent counts the
\* messages handed to dc.send; throws says whether dc.send throws
SendMessageNoCheck(st, throws) ==
  IF st.dataChannelRef = 0 \/ throws THEN [st EXCEPT !.lastSend = "false"]
  ELSE [st EXCEPT !.lastSend = "true", !.dcSent = @ + 1]
SendMessage(st, throws) ==
  IF st.dataChannelRef = 0 THEN [st EXCEPT !.lastSend = "false"]
  ELSE IF st.chans[st.dataChannelRef].state # "open"
       THEN [st EXCEPT !.lastSend = "false"]
  ELSE IF throws THEN [st EXCEPT !.lastSend = "false"]
  ELSE [st EXCEPT !.lastSend = "true", !.dcSent = @ + 1]

\* the acknowledgement callback of socket.emit('join', ...)
OnJoinAck(st, ack) ==
  [st EXCEPT !.isInitiator = (ack.role = "caller"), !.acks = @ + 1]

\* onRoomReady
OnRoomReadyNoStart(st) == [st EXCEPT !.roomReady = TRUE]
OnRoomReady(st) == MaybeStartCall([st EXCEPT !.roomReady = TRUE])

\* ------------------------------------------------------------ useGestures
\* Array.prototype.slice(-n)
SliceLast(q, n) == SubSeq(q, IF Len(q) > n THEN Len(q) - n + 1 ELSE 1, Len(q))

\* Math.sqrt, on the sums of squares the hands of the model produce
Sqrt(n) == CHOOSE r \in 0..n : r * r <= n /\ (r + 1) * (r + 1) > n
Distance2D(a, b) ==
  Sqrt((a.x - b.x) * (a.x - b.x) + (a.y - b.y) * (a.y - b.y))

\* landmarks[index] is undefined in a frame that is too short, and reading
\* a coordinate of undefined throws a TypeError
lm(landmarks, index) == landmarks[index + 1]
Has(landmarks, index) == index + 1 <= Len(landmarks)

\* normalizeLandmarks: relative to the wrist, scaled by the distance between
\* landmarks[5] and landmarks[17] (or 1 when that is 0); z stays as it is.
\* The empty frame is returned as it is; any other frame without a
\* landmarks[5] or a landmarks[17] makes distance2D throw
NormalizeThrows(landmarks) ==
  Len(landmarks) # 0 /\ (~Has(landmarks, 5) \/ ~Has(landmarks, 17))
NormalizeNoScale(landmarks) ==
  [i \in DOMAIN landmarks |->
     [x |-> landmarks[i].x - landmarks[1].x,
      y |-> landmarks[i].y - landmarks[1].y,
      z |-> landmarks[i].z]]
NormalizeLandmarks(landmarks) ==
  IF Len(landmarks) = 0 THEN <<>>
  ELSE LET wrist == landmarks[1]
           d == Distance2D(landmarks[6], landmarks[18])
           scale == IF d = 0 THEN 1 ELSE d
       IN [i \in DOMAIN landmarks |->
             [x |-> (landmarks[i].x - wrist.x) \div scale,
              y |-> (landmarks[i].y - wrist.y) \div scale,
              z |-> landmarks[i].z]]

\* a / timeDelta with timeDelta = ms / 1000 seconds, as IEEE 754 divides; a
\* velocity is counted in hundredths of a unit per second
Divide(a, ms) ==
  IF ms # 0 THEN Num((a * 100000) \div ms)
  ELSE IF a > 0 THEN Infinity
  ELSE IF a < 0 THEN NegInfinity
  ELSE NaN

\* calculateVelocities
CalculateVelocities(prevLandmarks, currentLandmarks, ms) ==
  IF Len(prevLandmarks) # Len(currentLandmarks)
  THEN [i \in 1..JointCount |-> ZeroVelocity]
  ELSE [i \in DOMAIN currentLandmarks |->
          [x |-> Divide(currentLandmarks[i].x - prevLandmarks[i].x, ms),
           y |-> Divide(currentLandmarks[i].y - prevLandmarks[i].y, ms)]]

\* [...buffer.slice(-14), entry]
PushSliceKeepAll(buffer, entry) == Append(SliceLast(buffer, maxHistory), entry)
PushSlice(buffer, entry) == Append(SliceLast(buffer, KeepFrames), entry)

\* history.push(rawGesture); if (history.length > maxHistory) history.shift()
PushShift(history, rawGesture) ==
  LET pushed == Append(history, rawGesture)
  IN IF Len(pushed) > maxHistory THEN Tail(pushed) ELSE pushed

\* counts: the votes of the window, UNKNOWN left out; Keys is the order in
\* which Object.entries lists them, that of their first occurrence
Votes(recent, g) == Cardinality({k \in DOMAIN recent : recent[k] = g})
Keys(recent) ==
  LET first == {k \in DOMAIN recent :
                  /\ recent[k] # "UNKNOWN"
                  /\ \A j \in 1..(k - 1) : recent[j] # recent[k]}
      Nth[n \in 1..Cardinality(first)] ==
        CHOOSE k \in first : Cardinality({j \in first : j < k}) = n - 1
  IN [n \in 1..Cardinality(first) |-> recent[Nth[n]]]

\* the forEach over Object.entries(counts): a later entry replaces the best
\* one only with a strictly higher count
RECURSIVE BestOfLastWins(_, _, _)
BestOfLastWins(recent, keys, best) ==
  IF keys = <<>> THEN best
  ELSE LET c == Votes(recent, Head(keys))
       IN BestOfLastWins(recent, Tail(keys),
                         IF c >= best.count /\ c > 0
                         THEN [gesture |-> Head(keys), count |-> c] ELSE best)
RECURSIVE BestOf(_, _, _)
BestOf(recent, keys, best) ==
  IF keys = <<>> THEN best
  ELSE LET c == Votes(recent, Head(keys))
       IN BestOf(recent, Tail(keys),
                 IF c > best.count
                 THEN [gesture |-> Head(keys), count |-> c] ELSE best)

\* the temporal smoothing of processHands: the final gesture for a history
\* that already holds rawGesture
SmoothNone(history, rawGesture, previous) == rawGesture
SmoothLastWins(history, rawGesture, previous) ==
  LET recent == SliceLast(history, windowSize)
      best == BestOfLastWins(recent, Keys(recent), [gesture |-> rawGesture, count |-> 0])
  IN IF best.count >= MinVotes THEN best.gesture ELSE previous
SmoothForget(history, rawGesture, previous) ==
  LET recent == SliceLast(history, windowSize)
      best == BestOf(recent, Keys(recent), [gesture |-> rawGesture, count |-> 0])
  IN IF best.count >= MinVotes THEN best.gesture ELSE rawGesture
Smooth(history, rawGesture, previous) ==
  LET recent == SliceLast(history, windowSize)
      best == BestOf(recent, Keys(recent), [gesture |-> rawGesture, count |-> 0])
      stable == best.count >= MinVotes
  IN IF stable THEN best.gesture ELSE previous

\* ------------------------------------------- useGestures: the classifier
\* Math.abs, and JavaScript's arithmetic and comparisons on the numbers a
\* velocity may hold: a comparison with NaN is false
AbsInt(n) == IF n < 0 THEN -n ELSE n
Mag(a) ==
  IF a.kind = "num" THEN Num(AbsInt(a.v))
  ELSE IF a.kind = "nan" THEN NaN ELSE Infinity
Times(a, k) == IF a.kind = "num" THEN Num(a.v * k) ELSE a
Plus(a, b) ==
  IF a.kind = "nan" \/ b.kind = "nan" THEN NaN
  ELSE IF a.kind = "num" /\ b.kind = "num" THEN Num(a.v + b.v)
  ELSE IF {a.kind, b.kind} \subseteq {"num", "inf"} THEN Infinity
  ELSE IF {a.kind, b.kind} \subseteq {"num", "-inf"} THEN NegInfinity
  ELSE NaN
Gt(a, b) ==
  /\ a.kind # "nan" /\ b.kind # "nan"
  /\ \/ a.kind = "inf" /\ b.kind # "inf"
     \/ a.kind = "num" /\ b.kind = "-inf"
     \/ a.kind = "num" /\ b.kind = "num" /\ a.v > b.v
Lt(a, b) == Gt(b, a)
\* Math.sqrt(vel.x * vel.x + vel.y * vel.y)
Speed(vel) ==
  IF vel.x.kind = "nan" \/ vel.y.kind = "nan" THEN NaN
  ELSE IF vel.x.kind # "num" \/ vel.y.kind # "num" THEN Infinity
  ELSE Num(Sqrt(vel.x.v * vel.x.v + vel.y.v * vel.y.v))

IsFingerExtended(landmarks, tipIndex, pipIndex) ==
  100 * lm(landmarks, tipIndex).y < 100 * lm(landmarks, pipIndex).y - 2
IsFingerCurled(landmarks, tipIndex, pipIndex) ==
  1000 * lm(landmarks, tipIndex).y > 1000 * lm(landmarks, pipIndex).y - 5

IsThumbUp(landmarks) ==
  /\ IsFingerExtended(landmarks, 4, 3)
  /\ IsFingerCurled(landmarks, 8, 6)
  /\ IsFingerCurled(landmarks, 12, 10)
  /\ IsFingerCurled(landmarks, 16, 14)
  /\ IsFingerCurled(landmarks, 20, 18)
IsThumbDown(landmarks) ==
  /\ 100 * lm(landmarks, 4).y > 100 * lm(landmarks, 3).y + 2
  /\ 100 * lm(landmarks, 4).y > 100 * lm(landmarks, 0).y + 2
  /\ IsFingerCurled(landmarks, 8, 6)
  /\ IsFingerCurled(landmarks, 12, 10)
  /\ IsFingerCurled(landmarks, 16, 14)
  /\ IsFingerCurled(landmarks, 20, 18)
IsPeaceSignApart(landmarks) ==
  /\ IsFingerExtended(landmarks, 8, 6)
  /\ IsFingerExtended(landmarks, 12, 10)
  /\ IsFingerCurled(landmarks, 16, 14)
  /\ IsFingerCurled(landmarks, 20, 18)
  /\ 100 * Distance2D(lm(landmarks, 8), lm(landmarks, 12)) >= 5
IsPeaceSign(landmarks) ==
  /\ IsFingerExtended(landmarks, 8, 6)
  /\ IsFingerExtended(landmarks, 12, 10)
  /\ IsFingerCurled(landmarks, 16, 14)
  /\ IsFingerCurled(landmarks, 20, 18)
IsVictoryAlt(landmarks) ==
  IF ~IsPeaceSign(landmarks) THEN FALSE
  ELSE 100 * lm(landmarks, 8).y < 100 * lm(landmarks, 0).y - 5
\* isOpenHand reads the tip and the joint below it of four fingers before it
\* combines the four results
OpenHandThrows(landmarks) ==
  \E index \in {8, 6, 12, 10, 16, 14, 20, 18} : ~Has(landmarks, index)
IsOpenHand(landmarks) ==
  /\ IsFingerExtended(landmarks, 8, 6)
  /\ IsFingerExtended(landmarks, 12, 10)
  /\ IsFingerExtended(landmarks, 16, 14)
  /\ IsFingerExtended(landmarks, 20, 18)
IsFist(landmarks) ==
  /\ IsFingerCurled(landmarks, 4, 3)
  /\ IsFingerCurled(landmarks, 8, 6)
  /\ IsFingerCurled(landmarks, 12, 10)
  /\ IsFingerCurled(landmarks, 16, 14)
  /\ IsFingerCurled(landmarks, 20, 18)
IsRaisedFist(landmarks) ==
  IF ~IsFist(landmarks) THEN FALSE
  ELSE 100 * lm(landmarks, 5).y < 100 * lm(landmarks, 0).y - 2
IsOkSign(landmarks) ==
  /\ 100 * Distance2D(lm(landmarks, 4), lm(landmarks, 8)) < 7
  /\ IsFingerExtended(landmarks, 12, 10)
  /\ IsFingerExtended(landmarks, 16, 14)
  /\ IsFingerExtended(landmarks, 20, 18)
IsPinch(landmarks) ==
  /\ 100 * Distance2D(lm(landmarks, 4), lm(landmarks, 8)) < 4
  /\ IsFingerCurled(landmarks, 12, 10)
  /\ IsFingerCurled(landmarks, 16, 14)
  /\ IsFingerCurled(landmarks, 20, 18)
IsRockSign(landmarks) ==
  LET thumbExtended ==
        \/ IsFingerExtended(landmarks, 4, 3)
        \/ 100 * lm(landmarks, 4).y < 100 * lm(landmarks, 3).y + 5
      indexTip == lm(landmarks, 8)
      pinkyTip == lm(landmarks, 20)
      heightDiff == AbsInt(indexTip.y - pinkyTip.y)
      tipDistance == Distance2D(indexTip, pinkyTip)
      handWidth == Distance2D(lm(landmarks, 5), lm(landmarks, 17))
  IN /\ IsFingerExtended(landmarks, 8, 6)
     /\ IsFingerExtended(landmarks, 20, 18)
     /\ IsFingerCurled(landmarks, 12, 10)
     /\ IsFingerCurled(landmarks, 16, 14)
     /\ thumbExtended
     /\ 100 * heightDiff < 15
     /\ 10 * tipDistance > 8 * handWidth
\* the hand angle atan2(dy, dx) lies between 60 and 120 degrees either way
\* exactly when dy * dy > 3 * dx * dx
IsCallMe(landmarks) ==
  LET dy == lm(landmarks, 17).y - lm(landmarks, 5).y
      dx == lm(landmarks, 17).x - lm(landmarks, 5).x
      isVertical == dy * dy > 3 * dx * dx
  IN /\ IsFingerExtended(landmarks, 4, 3)
     /\ IsFingerExtended(landmarks, 20, 18)
     /\ IsFingerCurled(landmarks, 8, 6)
     /\ IsFingerCurled(landmarks, 12, 10)
     /\ IsFingerCurled(landmarks, 16, 14)
     /\ isVertical
IsClaw(landmarks) ==
  LET wrist == lm(landmarks, 0)
      closeToWrist ==
        /\ 100 * lm(landmarks, 8).y > 100 * wrist.y - 2
        /\ 100 * lm(landmarks, 12).y > 100 * wrist.y - 2
        /\ 100 * lm(landmarks, 16).y > 100 * wrist.y - 2
        /\ 100 * lm(landmarks, 20).y > 100 * wrist.y - 2
  IN closeToWrist /\ ~IsFist(landmarks)
\* what the four pointing predicates have in common
Pointing(landmarks) ==
  /\ IsFingerExtended(landmarks, 8, 6)
  /\ IsFingerCurled(landmarks, 12, 10)
  /\ IsFingerCurled(landmarks, 16, 14)
  /\ IsFingerCurled(landmarks, 20, 18)
IsPointUp(landmarks) ==
  IF ~Pointing(landmarks) THEN FALSE
  ELSE 100 * lm(landmarks, 8).y < 100 * lm(landmarks, 0).y - 2
IsPointDown(landmarks) ==
  IF ~Pointing(landmarks) THEN FALSE
  ELSE 100 * lm(landmarks, 8).y > 100 * lm(landmarks, 0).y + 2
IsPointRight(landmarks) ==
  IF ~Pointing(landmarks) THEN FALSE
  ELSE 100 * lm(landmarks, 8).x > 100 * lm(landmarks, 0).x + 5
IsPointLeft(landmarks) ==
  IF ~Pointing(landmarks) THEN FALSE
  ELSE 100 * lm(landmarks, 8).x < 100 * lm(landmarks, 0).x - 5

\* the loop of isWave over the wrist velocities, from the second entry on
RECURSIVE WaveLoop(_, _, _)
WaveLoop(velocities, i, m) ==
  IF i > Len(velocities) THEN m
  ELSE IF Len(velocities[i]) = 0 THEN WaveLoop(velocities, i + 1, m)
  ELSE
    LET vel == velocities[i][1]
        speed == Speed(vel)
        isHorizontal == Gt(Times(Mag(vel.x), 2), Times(Mag(vel.y), 3))
        direction == IF isHorizontal
                     THEN (IF Gt(vel.x, Num(0)) THEN "right" ELSE "left")
                     ELSE (IF Gt(vel.y, Num(0)) THEN "down" ELSE "up")
        counted == [m EXCEPT !.significantMotionFrames = @ + 1]
    IN IF Lt(speed, Num(10)) THEN WaveLoop(velocities, i + 1, m)
       ELSE IF ~isHorizontal THEN WaveLoop(velocities, i + 1, counted)
       ELSE WaveLoop(velocities, i + 1,
              [counted EXCEPT
                 !.motionAmplitude = Plus(@, Mag(vel.x)),
                 !.directionChanges =
                    IF m.lastDirection # "null" /\ m.lastDirection # direction
                    THEN @ + 1 ELSE @,
                 !.lastDirection = direction])
IsWave(landmarks, velocities) ==
  IF ~IsOpenHand(landmarks) THEN FALSE
  ELSE IF Len(velocities) < 10 THEN FALSE
  ELSE LET m == WaveLoop(velocities, 2,
                         [directionChanges |-> 0, lastDirection |-> "null",
                          motionAmplitude |-> Num(0),
                          significantMotionFrames |-> 0])
       IN /\ m.directionChanges >= 3
          /\ Gt(m.motionAmplitude, Num(30))
          /\ m.significantMotionFrames >= 5

IsPalmUp(landmarks) ==
  IF ~IsOpenHand(landmarks) THEN FALSE
  ELSE lm(landmarks, 5).z + lm(landmarks, 9).z + lm(landmarks, 13).z
         + lm(landmarks, 17).z < 4 * lm(landmarks, 0).z
IsPalmDown(landmarks) ==
  IF ~IsOpenHand(landmarks) THEN FALSE
  ELSE lm(landmarks, 5).z + lm(landmarks, 9).z + lm(landmarks, 13).z
         + lm(landmarks, 17).z > 4 * lm(landmarks, 0).z

\* the loop of isStop over the wrist velocities of the last 10 entries
RECURSIVE StopLoop(_, _, _)
StopLoop(recentFrames, i, m) ==
  IF i > Len(recentFrames) THEN m
  ELSE IF Len(recentFrames[i]) = 0 THEN StopLoop(recentFrames, i + 1, m)
  ELSE
    LET speed == Speed(recentFrames[i][1])
        added == [m EXCEPT !.totalSpeed = Plus(@, speed)]
    IN StopLoop(recentFrames, i + 1,
                IF Gt(speed, Num(15))
                THEN [added EXCEPT !.wasMoving = TRUE, !.movingFrames = @ + 1]
                ELSE added)
IsStopLoose(landmarks, velocities) ==
  IF ~IsOpenHand(landmarks) THEN FALSE
  ELSE IF ~(IsPalmDown(landmarks) \/ IsPalmUp(landmarks)) THEN FALSE
  ELSE IF Len(velocities) < 5 THEN FALSE
  ELSE LET recentFrames == SliceLast(velocities, 10)
           m == StopLoop(recentFrames, 1,
                         [totalSpeed |-> Num(0), movingFrames |-> 0,
                          wasMoving |-> FALSE])
       IN /\ m.wasMoving
          /\ Lt(m.totalSpeed, Num(6 * Len(recentFrames)))
          /\ m.movingFrames >= 3
IsStop(landmarks, velocities) ==
  IF ~IsOpenHand(landmarks) THEN FALSE
  ELSE IF ~(IsPalmDown(landmarks) \/ IsPalmUp(landmarks)) THEN FALSE
  ELSE IF Len(velocities) < 5 THEN FALSE
  ELSE LET recentFrames == SliceLast(velocities, 10)
           m == StopLoop(recentFrames, 1,
                         [totalSpeed |-> Num(0), movingFrames |-> 0,
                          wasMoving |-> FALSE])
       IN /\ m.wasMoving
          /\ Lt(m.totalSpeed, Num(5 * Len(recentFrames)))
          /\ m.movingFrames >= 3

IsThreeFingers(landmarks) ==
  /\ IsFingerExtended(landmarks, 8, 6)
  /\ IsFingerExtended(landmarks, 12, 10)
  /\ IsFingerExtended(landmarks, 16, 14)
  /\ IsFingerCurled(landmarks, 20, 18)
IsFourFingers(landmarks) ==
  /\ IsFingerExtended(landmarks, 8, 6)
  /\ IsFingerExtended(landmarks, 12, 10)
  /\ IsFingerExtended(landmarks, 16, 14)
  /\ IsFingerExtended(landmarks, 20, 18)
  /\ IsFingerCurled(landmarks, 4, 3)
IsFingerHeart(landmarks) ==
  /\ 100 * Distance2D(lm(landmarks, 4), lm(landmarks, 8)) < 6
  /\ ~IsFingerCurled(landmarks, 12, 10)
  /\ ~IsFingerCurled(landmarks, 16, 14)
  /\ ~IsFingerCurled(landmarks, 20, 18)
IsCrossFingers(landmarks) ==
  IF ~(/\ IsFingerExtended(landmarks, 8, 6)
       /\ IsFingerExtended(landmarks, 12, 10)
       /\ IsFingerCurled(landmarks, 16, 14)
       /\ IsFingerCurled(landmarks, 20, 18)) THEN FALSE
  ELSE 100 * Distance2D(lm(landmarks, 8), lm(landmarks, 12)) < 5
IsHandshakeLike(landmarks) ==
  IF ~IsOpenHand(landmarks) THEN FALSE
  ELSE LET dy == AbsInt(lm(landmarks, 8).y - lm(landmarks, 20).y)
           dx == AbsInt(lm(landmarks, 8).x - lm(landmarks, 20).x)
       IN 100 * dx > 100 * dy + 5
IsPrayLike(landmarks) ==
  IF ~IsOpenHand(landmarks) THEN FALSE
  ELSE 10 * lm(landmarks, 0).x > 3 /\ 10 * lm(landmarks, 0).x < 7

\* recognizeGesture: the first predicate that holds names the gesture. Its
\* first predicate, isWave, starts with isOpenHand, so a frame without one of
\* the landmarks isOpenHand reads ends the call with a TypeError
RecognizeGestureWaveLast(landmarks, velocities) ==
  IF OpenHandThrows(landmarks) THEN "TypeError"
  ELSE IF IsOpenHand(landmarks) THEN "OPEN_HAND"
  ELSE IF IsWave(landmarks, velocities) THEN "WAVE"
  ELSE IF IsFist(landmarks) THEN "FIST"
  ELSE IF IsPeaceSign(landmarks) THEN "PEACE_SIGN"
  ELSE "UNKNOWN"
RecognizeGesture(landmarks, velocities) ==
  IF OpenHandThrows(landmarks) THEN "TypeError"
  ELSE IF IsWave(landmarks, velocities) THEN "WAVE"
  ELSE IF IsStop(landmarks, velocities) THEN "STOP"
  ELSE IF IsCallMe(landmarks) THEN "CALL_ME"
  ELSE IF IsRockSign(landmarks) THEN "ROCK_SIGN"
  ELSE IF IsThumbUp(landmarks) THEN "THUMB_UP"
  ELSE IF IsThumbDown(landmarks) THEN "THUMB_DOWN"
  ELSE IF IsFist(landmarks) THEN "FIST"
  ELSE IF IsRaisedFist(landmarks) THEN "RAISED_FIST"
  ELSE IF IsOkSign(landmarks) THEN "OK_SIGN"
  ELSE IF IsPinch(landmarks) THEN "PINCH"
  ELSE IF IsPeaceSign(landmarks) THEN "PEACE_SIGN"
  ELSE IF IsVictoryAlt(landmarks) THEN "VICTORY_ALT"
  ELSE IF IsClaw(landmarks) THEN "CLAW"
  ELSE IF IsPointUp(landmarks) THEN "POINT_UP"
  ELSE IF IsPointRight(landmarks) THEN "POINT_RIGHT"
  ELSE IF IsPointLeft(landmarks) THEN "POINT_LEFT"
  ELSE IF IsPointDown(landmarks) THEN "POINT_DOWN"
  ELSE IF IsPalmUp(landmarks) THEN "PALM_UP"
  ELSE IF IsPalmDown(landmarks) THEN "PALM_DOWN"
  ELSE IF IsThreeFingers(landmarks) THEN "THREE_FINGERS"
  ELSE IF IsFourFingers(landmarks) THEN "FOUR_FINGERS"
  ELSE IF IsFingerHeart(landmarks) THEN "FINGER_HEART"
  ELSE IF IsCrossFingers(landmarks) THEN "CROSS_FINGERS"
  ELSE IF IsHandshakeLike(landmarks) THEN "HANDSHAKE_START"
  ELSE IF IsPrayLike(landmarks) THEN "PRAY"
  ELSE IF IsOpenHand(landmarks) THEN "OPEN_HAND"
  ELSE "UNKNOWN"

\* gestureToText (the texts without the emoji each of them starts with)
GestureToText(gesture) ==
  CASE gesture = "THUMB_UP" -> "Thumbs up!"
    [] gesture = "PEACE_SIGN" -> "Peace!"
    [] gesture = "OPEN_HAND" -> "Open hand"
    [] gesture = "UNKNOWN" -> "Detected"
    [] gesture = "THUMB_DOWN" -> "Thumbs down"
    [] gesture = "FIST" -> "Fist"
    [] gesture = "OK_SIGN" -> "OK!"
    [] gesture = "PINCH" -> "Pinch"
    [] gesture = "ROCK_SIGN" -> "Rock!"
    [] gesture = "CALL_ME" -> "Call me"
    [] gesture = "CLAW" -> "Claw gesture"
    [] gesture = "POINT_UP" -> "Pointing up"
    [] gesture = "POINT_RIGHT" -> "Pointing right"
    [] gesture = "POINT_LEFT" -> "Pointing left"
    [] gesture = "POINT_DOWN" -> "Pointing down"
    [] gesture = "CROSS_FINGERS" -> "Good luck!"
    [] gesture = "HANDSHAKE_START" -> "Handshake"
    [] gesture = "PRAY" -> "Namaste / Pray"
    [] gesture = "RAISED_FIST" -> "Raised fist"
    [] gesture = "PALM_DOWN" -> "Palm down"
    [] gesture = "PALM_UP" -> "Palm up"
    [] gesture = "STOP" -> "Stop!"
    [] gesture = "WAVE" -> "Wave"
    [] gesture = "FINGER_HEART" -> "Finger heart"
    [] gesture = "VICTORY_ALT" -> "Victory"
    [] gesture = "THREE_FINGERS" -> "Three-finger gesture"
    [] gesture = "FOUR_FINGERS" -> "Vulcan salute"
    [] OTHER -> "Unknown gesture"

\* the confidence of an event, in tenths
ConfidenceHalf(finalGesture) == 5
ConfidenceOf(finalGesture) == IF finalGesture = "UNKNOWN" THEN 4 ELSE 9

\* callbacksRef.current.forEach: every callback is called with the result,
\* and what a callback of throwing throws is caught and logged
ForEachUntilThrow(callbacks, throwing, result) ==
  LET stop == IF \E k \in DOMAIN callbacks : callbacks[k] \in throwing
              THEN CHOOSE k \in DOMAIN callbacks :
                     /\ callbacks[k] \in throwing
                     /\ \A j \in 1..(k - 1) : callbacks[j] \notin throwing
              ELSE Len(callbacks)
  IN [k \in 1..stop |->
        [callback |-> callbacks[k], gesture |-> result.gesture,
         threw |-> callbacks[k] \in throwing]]
ForEach(callbacks, throwing, result) ==
  [k \in DOMAIN callbacks |->
     [callback |-> callbacks[k], gesture |-> result.gesture,
      threw |-> callbacks[k] \in throwing]]

\* onGestureDetected(callback), and the function it returns
OnGestureDetected(g) ==
  [g EXCEPT !.issued = @ + 1, !.callbacks = Append(@, g.issued + 1)]
Unsubscribe(g, callback) ==
  [g EXCEPT !.callbacks = SelectSeq(@, LAMBDA cb : cb # callback)]

\* processHands for results that may hold a hand; now is the reading of
\* performance.now(), throwing the callbacks that throw when they are called.
\* An exception ends the call where it is thrown, with what was written
\* before it
ProcessHands(g, hand, landmarks, now, throwing) ==
  IF ~hand THEN [g EXCEPT !.threw = FALSE, !.calls = <<>>]
  ELSE IF NormalizeThrows(landmarks) THEN [g EXCEPT !.threw = TRUE, !.calls = <<>>]
  ELSE
    LET normalizedLandmarks == NormalizeLandmarks(landmarks)
        velocities == CalculateVelocities(g.prevLandmarks, normalizedLandmarks,
                                          now - g.prevTimestamp)
        g1 == IF g.hasPrev /\ g.prevTimestamp # 0
              THEN [g EXCEPT !.velocities = PushSlice(@, velocities),
                             !.velLog = Append(@, velocities)]
              ELSE g
        entry == [timestamp |-> now, landmarks |-> normalizedLandmarks]
        g2 == [g1 EXCEPT !.motionHistory = PushSlice(@, entry),
                         !.frameLog = Append(@, entry),
                         !.hasPrev = TRUE,
                         !.prevLandmarks = normalizedLandmarks,
                         !.prevTimestamp = now]
        rawGesture == RecognizeGesture(normalizedLandmarks, g2.velocities)
        history == PushShift(g2.gestureHistory, rawGesture)
        previous == IF g2.lastGesture = "" THEN "UNKNOWN" ELSE g2.lastGesture
        finalGesture == Smooth(history, rawGesture, previous)
        confidence == ConfidenceOf(finalGesture)
        gestureText == GestureToText(finalGesture)
        result == [set |-> TRUE, gesture |-> finalGesture, text |-> gestureText,
                   confidence |-> confidence]
    IN IF rawGesture = "TypeError"
       THEN [g2 EXCEPT !.threw = TRUE, !.calls = <<>>]
       ELSE [g2 EXCEPT !.gestureHistory = history,
                       !.rawLog = Append(@, rawGesture),
                       !.lastGesture = IF finalGesture # previous
                                       THEN finalGesture ELSE @,
                       !.currentGesture = finalGesture,
                       !.detectedText = gestureText,
                       !.confidence = confidence,
                       !.lastEvent = result,
                       !.calls = ForEach(g2.callbacks, throwing, result),
                       !.threw = FALSE]

\* the cleanups that run when the component unmounts: the one of the socket
\* effect, then the one of the unmount effect; liveStreams counts the acquired
\* streams whose tracks were never stopped
StopTracks(st) ==
  IF st.localStream
  THEN [st EXCEPT !.localStream = FALSE, !.liveStreams = @ - 1]
  ELSE st
Cleanup(st) ==
  LET s1 == [st EXCEPT !.socketRef = FALSE, !.mounted = FALSE]
      s2 == IF s1.pcRef
            THEN [s1 EXCEPT !.pc.sig = "closed", !.pcRef = FALSE,
                            !.chans = [i \in DOMAIN @ |->
                                         [@[i] EXCEPT !.state = "closed"]]]
            ELSE s1
      s3 == [s2 EXCEPT !.dataChannelRef = 0]
  IN StopTracks(s3)

\* startLocalStream after getUserMedia resolved, without the pending offer
GotUserMediaDropOffer(st) ==
  LET s1 == [st EXCEPT !.localStream = TRUE, !.liveStreams = @ + 1]
  IN IF s1.pcRef /\ s1.pc.sig = "closed"
     THEN [s1 EXCEPT !.error = "Could not access camera/microphone."]
     ELSE MaybeStartCall(IF s1.pcRef THEN [s1 EXCEPT !.pc.tracks = TRUE] ELSE s1)

\* startLocalStream after getUserMedia resolved
GotUserMedia(st) ==
  LET s1 == [st EXCEPT !.localStream = TRUE, !.liveStreams = @ + 1]
  IN IF s1.pcRef /\ s1.pc.sig = "closed"
     THEN [s1 EXCEPT !.error = "Could not access camera/microphone."]
     ELSE LET s2 == IF s1.pcRef THEN [s1 EXCEPT !.pc.tracks = TRUE] ELSE s1
          IN IF s2.pendingOffer # NoDesc
             THEN LET s3 == [s2 EXCEPT !.pendingOffer = NoDesc,
                                       !.deferred = Append(@, s2.pendingOffer)]
                  IN IF ~s3.socketRef THEN MaybeStartCall(s3)
                     ELSE AcceptOffer(s3, s2.pendingOffer, "acceptOfferThenStart")
             ELSE MaybeStartCall(s2)

\* ================================================================ actions
\* what a client step leaves behind: its new state, and the packets it emitted
Commit(c, st) ==
  /\ cl' = [cl EXCEPT ![c] = st]
  /\ upQ' = [upQ EXCEPT ![c] =
               @ \o SubSeq(st.emitted, Len(cl[c].emitted) + 1, Len(st.emitted))]

\* a step that is a disturbance (counted against MaxEnv), or is not
Disturb == env < MaxEnv /\ env' = env + 1
Quiet == env' = env

\* the socket connects for the first time: onConnect emits 'join'
Connect(c) ==
  /\ cl[c].mounted
  /\ ~sockUp[c]
  /\ connects[c] = 0
  /\ sockUp' = [sockUp EXCEPT ![c] = TRUE]
  /\ connects' = [connects EXCEPT ![c] = @ + 1]
  /\ upQ' = [upQ EXCEPT ![c] = Append(@, Msg("join", cl[c].roomId, NoDesc))]
  /\ Quiet
  /\ UNCHANGED <<rooms, lastJoin, downQ, cl, lastRecv, faults>>

\* the connection drops and socket.io reconnects (reconnection: true): the
\* server takes the old socket out of its rooms, the packets in flight are
\* lost, and onConnect runs again on the new socket
Reconnect(c) ==
  /\ sockUp[c]
  /\ Disturb
  /\ connects' = [connects EXCEPT ![c] = @ + 1]
  /\ rooms' = [r \in Rooms |-> rooms[r] \ {c}]
  /\ upQ' = [upQ EXCEPT ![c] = <<Msg("join", cl[c].roomId, NoDesc)>>]
  /\ downQ' = [downQ EXCEPT ![c] = <<>>]
  /\ UNCHANGED <<lastJoin, sockUp, cl, lastRecv, faults>>

\* the server handles the next packet of a client
ServerRecvJoin(c) ==
  /\ sockUp[c] /\ upQ[c] # <<>> /\ Head(upQ[c]).type = "join"
  /\ ServerJoin(c, Head(upQ[c]).room)
  /\ upQ' = [upQ EXCEPT ![c] = Tail(@)]
  /\ Quiet
  /\ UNCHANGED <<sockUp, connects, cl, lastRecv, faults>>

ServerRecvRelay(c) ==
  /\ sockUp[c] /\ upQ[c] # <<>> /\ Head(upQ[c]).type # "join"
  /\ ServerRelay(c, Head(upQ[c]))
  /\ upQ' = [upQ EXCEPT ![c] = Tail(@)]
  /\ Quiet
  /\ UNCHANGED <<sockUp, connects, cl, lastRecv, faults>>

\* another socket joins a room, drops its connection, or sends a signaling
\* message into a room
RawJoin(z, r) ==
  /\ Disturb
  /\ ServerJoin(z, r)
  /\ UNCHANGED <<sockUp, connects, upQ, cl, lastRecv, faults>>

RawLeave(z) ==
  /\ \E r \in Rooms : z \in rooms[r]
  /\ Disturb
  /\ rooms' = [r \in Rooms |-> rooms[r] \ {z}]
  /\ UNCHANGED <<lastJoin, sockUp, connects, upQ, downQ, cl, lastRecv, faults>>

RawSend(z, type, r) ==
  /\ \A c \in Clients : downQ[c] = <<>>
  /\ Disturb
  /\ ServerRelay(z, Msg(type, r, Desc(type, z, env + 1, TRUE, "none")))
  /\ UNCHANGED <<sockUp, connects, upQ, cl, lastRecv, faults>>

\* the candidates of the peer that have reached client c or are on their way
PeerCands(c) ==
  Len(cl[c].buffered) + Len(cl[c].iceCalls) - Len(SelectSeq(cl[c].iceCalls, LAMBDA x : x.via = "drain"))
    + Len(SelectSeq(downQ[c], LAMBDA m : m.type = "candidate"))

\* the peer z of client c trickles its next ICE candidate into the room; n
\* numbers the candidates in the order they are sent
PeerCandidate(z, c) ==
  /\ downQ[c] = <<>>
  /\ PeerCands(c) < MaxPeerCands
  /\ ServerRelay(z, Msg("candidate", RoomId,
                        Desc("candidate", z, PeerCands(c) + 1, TRUE, "none")))
  /\ Quiet
  /\ UNCHANGED <<sockUp, connects, upQ, cl, lastRecv, faults>>

\* a packet reaches the client: the handler registered for its type runs
Receive(c, type) ==
  /\ sockUp[c] /\ downQ[c] # <<>> /\ Head(downQ[c]).type = type
  /\ downQ' = [downQ EXCEPT ![c] = Tail(@)]
  /\ lastRecv' = [lastRecv EXCEPT ![c] = Head(downQ[c])]
  /\ Quiet
  /\ UNCHANGED <<rooms, lastJoin, sockUp, connects, faults>>

DeliverAck(c) ==
  /\ Receive(c, "ack")
  /\ Commit(c, OnJoinAck(cl[c], Head(downQ[c]).ack))

DeliverRoomReady(c) ==
  /\ Receive(c, "room-ready")
  /\ Commit(c, OnRoomReady(cl[c]))

DeliverOffer(c) ==
  /\ Receive(c, "offer")
  /\ Commit(c, HandleOffer(cl[c], Head(downQ[c]).data))

DeliverAnswer(c) ==
  /\ Receive(c, "answer")
  /\ Commit(c, HandleAnswer(cl[c], Head(downQ[c]).data))

DeliverCandidate(c) ==
  /\ Receive(c, "candidate")
  /\ Commit(c, HandleCandidate(cl[c], Head(downQ[c]).data))

\* what a step inside the browser leaves alone
Outside == <<rooms, lastJoin, sockUp, connects, downQ, lastRecv>>

\* startLocalStream is called (VideoCall's init effect, which runs again
\* whenever startLocalStream changes identity): getUserMedia starts
StartLocalStream(c) ==
  /\ cl[c].mounted
  /\ IF cl[c].mediaCalls = 0 THEN Quiet ELSE Disturb
  /\ Commit(c, [cl[c] EXCEPT !.mediaCalls = @ + 1, !.gum = @ + 1])
  /\ UNCHANGED <<Outside, faults>>

\* getUserMedia resolves
MediaReady(c) ==
  /\ cl[c].gum > 0
  /\ Commit(c, GotUserMedia([cl[c] EXCEPT !.gum = @ - 1]))
  /\ Quiet
  /\ UNCHANGED <<Outside, faults>>

\* getUserMedia rejects (permission denied, device busy)
MediaFail(c) ==
  /\ cl[c].gum > 0
  /\ Disturb
  /\ faults' = faults + 1
  /\ Commit(c, [cl[c] EXCEPT !.gum = @ - 1,
                             !.error = "Could not access camera/microphone."])
  /\ UNCHANGED Outside

\* the head of the operations chain succeeds; the awaiting handler goes on
OpResolve(c) ==
  LET st == cl[c]
      o == Head(st.ops)
      s1 == [st EXCEPT !.ops = Tail(@), !.pc = Applied(o, st.pc)]
      s2 == IF o.op = "srd" /\ o.arg.tracks THEN OnTrack(s1) ELSE s1
  IN /\ st.ops # <<>>
     /\ Legal(o, st.pc)
     /\ Commit(c, Resolved(s2, o, c))
     /\ Quiet
     /\ UNCHANGED <<Outside, faults>>

\* the head of the operations chain fails because the browser cannot carry
\* it out in the state the connection is in; the awaiting handler's catch runs
OpReject(c) ==
  LET st == cl[c]
      o == Head(st.ops)
  IN /\ st.ops # <<>>
     /\ ~Legal(o, st.pc) \/ BrowserDependent(o, st.pc)
     /\ Commit(c, Rejected([st EXCEPT !.ops = Tail(@)], o))
     /\ Quiet
     /\ UNCHANGED <<Outside, faults>>

\* the head of the operations chain fails although it is legal (bad SDP, a
\* browser error)
OpFault(c) ==
  LET st == cl[c]
      o == Head(st.ops)
  IN /\ st.ops # <<>>
     /\ Legal(o, st.pc)
     /\ Disturb
     /\ faults' = faults + 1
     /\ Commit(c, Rejected([st EXCEPT !.ops = Tail(@)], o))
     /\ UNCHANGED Outside

\* pc.onicecandidate with a candidate
IceCandidate(c) ==
  LET st == cl[c]
  IN /\ st.pc.sig \notin {"none", "closed"}
     /\ st.pc.hasLocal
     /\ st.candsGen < MaxCands
     /\ Commit(c, LET s1 == [st EXCEPT !.candsGen = @ + 1]
                  IN IF s1.socketRef
                     THEN EmitTo(s1, s1.pc.room, "candidate",
                                 Desc("candidate", c, s1.candsGen, FALSE, "none"))
                     ELSE s1)
     /\ Quiet
     /\ UNCHANGED <<Outside, faults>>

\* the effect on [processPendingCandidates, remoteStream] runs
DrainEffect(c) ==
  /\ cl[c].mounted
  /\ cl[c].drainDue
  /\ Commit(c, ProcessPendingCandidates([cl[c] EXCEPT !.drainDue = FALSE]))
  /\ Quiet
  /\ UNCHANGED <<Outside, faults>>

\* the transport of the peer connection is up
Established(pc) == pc.sig = "stable" /\ pc.hasLocal /\ pc.hasRemote

\* the peer announces a data channel
RemoteChannel(c, label) ==
  /\ Established(cl[c].pc)
  /\ cl[c].remoteChans < MaxRemoteChans
  /\ Commit(c, OnDataChannel([cl[c] EXCEPT !.remoteChans = @ + 1], label))
  /\ Quiet
  /\ UNCHANGED <<Outside, faults>>

ChannelOpens(c, i) ==
  /\ i \in DOMAIN cl[c].chans
  /\ cl[c].chans[i].state = "connecting"
  /\ cl[c].chans[i].gen = cl[c].pc.gen
  /\ Established(cl[c].pc)
  /\ Commit(c, OnOpen(cl[c], i))
  /\ Quiet
  /\ UNCHANGED <<Outside, faults>>

ChannelCloses(c, i) ==
  /\ i \in DOMAIN cl[c].chans
  /\ cl[c].chans[i].state \in {"connecting", "open"}
  /\ Commit(c, OnClose(cl[c], i))
  /\ Quiet
  /\ UNCHANGED <<Outside, faults>>

\* the data channel the caller d created on its peer connection is announced
\* to its peer c (pc.ondatachannel), once both transports are up
PeerChannel(c) ==
  \E d \in Clients \ {c} :
    /\ cl[d].isInitiator /\ ~cl[c].isInitiator
    /\ Established(cl[d].pc)
    /\ cl[d].dataChannelRef # 0
    /\ cl[d].chans[cl[d].dataChannelRef].gen = cl[d].pc.gen
    /\ RemoteChannel(c, cl[d].chans[cl[d].dataChannelRef].label)

\* sendMessage is called (by the gesture handler of VideoCall, whose closure
\* may hold an isConnected that is no longer current)
CallSendMessage(c) ==
  /\ cl[c].mounted
  /\ cl[c].dcSent < MaxSends
  /\ Commit(c, SendMessage(cl[c], FALSE))
  /\ Quiet
  /\ UNCHANGED <<Outside, faults>>

\* sendMessage is called and dc.send throws although the channel is open
SendThrows(c) ==
  /\ cl[c].dataChannelRef # 0
  /\ cl[c].chans[cl[c].dataChannelRef].state = "open"
  /\ Disturb
  /\ faults' = faults + 1
  /\ Commit(c, SendMessage(cl[c], TRUE))
  /\ UNCHANGED Outside

\* a message arrives on an open channel that has the onmessage handler
ChannelMessage(c, i, w) ==
  /\ i \in DOMAIN cl[c].chans
  /\ cl[c].chans[i].state = "open"
  /\ Commit(c, OnMessage(cl[c], w))
  /\ Quiet
  /\ UNCHANGED <<Outside, faults>>

\* the timer that clears the remote gesture overlay
GestureTimeout(c) ==
  /\ cl[c].mounted
  /\ cl[c].remoteGesture.set
  /\ Commit(c, [cl[c] EXCEPT !.remoteGesture = NoGesture])
  /\ Quiet
  /\ UNCHANGED <<Outside, faults>>

\* hands.onResults: MediaPipe reports the result of a detection cycle. A
\* frame that differs from the one before it uses up the budget of changes:
\* other fingers stretched out count once; another number of joints, a moved
\* joint, a clock that has not advanced and a cycle without a hand count
\* twice. The first frame is free in its fingers, and its clock has advanced.
\* Whether an exception of processHands reaches the catch around hands.send,
\* which ends the recognition loop, is up to MediaPipe
\* results.multiHandLandmarks holds one list of joints per detected hand, and
\* processHands reads the first of them
MultiHandLandmarks(f) ==
  IF f.hand THEN <<HandOf(f.joints, f.ext, f.tip, 0)>> \o f.others ELSE <<>>
LandmarksLast(f) ==
  IF MultiHandLandmarks(f) = <<>> THEN <<>>
  ELSE MultiHandLandmarks(f)[Len(MultiHandLandmarks(f))]
Landmarks(f) ==
  IF MultiHandLandmarks(f) = <<>> THEN <<>> ELSE MultiHandLandmarks(f)[1]
FrameCost(g, f) ==
  IF ~f.hand THEN 2
  ELSE (IF f.dt = 0 THEN 2 ELSE 0)
       + (IF f.joints # g.lastIn.joints \/ f.tip # g.lastIn.tip THEN 2 ELSE 0)
       + (IF g.lastIn.set /\ f.ext # g.lastIn.ext THEN 1 ELSE 0)
OnResults(c, f) ==
  LET g == cl[c].gest
      counted == [g EXCEPT !.frames = @ + 1, !.changes = @ + FrameCost(g, f),
                           !.lastIn = IF f.hand
                                      THEN [set |-> TRUE, joints |-> f.joints,
                                            ext |-> f.ext, tip |-> f.tip]
                                      ELSE @]
      after == ProcessHands(counted, f.hand, Landmarks(f),
                            g.prevTimestamp + f.dt, f.throwing)
  IN /\ ~g.fatalModelError
     /\ g.frames < MaxFrames
     /\ g.changes + FrameCost(g, f) <= MaxChanges
     /\ ~f.hand => /\ f.dt = 40 /\ f.throwing = {} /\ f.others = <<>>
                   /\ f.joints = g.lastIn.joints
                   /\ f.ext = g.lastIn.ext /\ f.tip = g.lastIn.tip
     /\ ~g.hasPrev => f.dt = 40
     /\ \A callback \in f.throwing :
          \E k \in DOMAIN g.callbacks : g.callbacks[k] = callback
     /\ \E fatal \in BOOLEAN :
          /\ fatal => after.threw
          /\ cl' = [cl EXCEPT ![c].gest =
                      [after EXCEPT
                         !.fatalModelError = fatal,
                         !.modelError = IF fatal THEN "Gesture model crashed"
                                        ELSE @]]
     /\ UNCHANGED <<rooms, lastJoin, sockUp, connects, upQ, downQ, lastRecv, env, faults>>

\* VideoCall's effect registers a handler with onGestureDetected, and its
\* cleanup calls the function it got back for it
Subscribe(c) ==
  /\ cl[c].gest.issued < MaxCallbacks
  /\ cl' = [cl EXCEPT ![c].gest = OnGestureDetected(@)]
  /\ UNCHANGED <<rooms, lastJoin, sockUp, connects, upQ, downQ, lastRecv, env, faults>>
CallUnsubscribe(c, callback) ==
  /\ callback <= cl[c].gest.issued
  /\ cl' = [cl EXCEPT ![c].gest = Unsubscribe(@, callback)]
  /\ UNCHANGED <<rooms, lastJoin, sockUp, connects, upQ, downQ, lastRecv, env, faults>>

\* recognizeGesture is called with the normalised landmarks of the probe
Classify(c) ==
  LET p == cl[c].probe
  IN /\ p.set /\ ~p.done
     /\ cl' = [cl EXCEPT ![c].probe =
                 [p EXCEPT !.done = TRUE,
                           !.label = RecognizeGesture(
                                       NormalizeLandmarks(p.landmarks),
                                       p.velocities)]]
     /\ UNCHANGED <<rooms, lastJoin, sockUp, connects, upQ, downQ, lastRecv, env, faults>>

\* normalizeLandmarks is called with the landmarks of the probe
Normalize(c) ==
  LET p == cl[c].probe
  IN /\ p.set /\ ~p.done
     /\ cl' = [cl EXCEPT ![c].probe =
                 [p EXCEPT !.done = TRUE,
                           !.normalized = NormalizeLandmarks(p.landmarks)]]
     /\ UNCHANGED <<rooms, lastJoin, sockUp, connects, upQ, downQ, lastRecv, env, faults>>

\* the user leaves the call: VideoCall unmounts and the hook's cleanups run;
\* socket.disconnect() takes the socket out of the server's rooms, and what
\* was in flight on the connection is lost
Unmount(c) ==
  /\ cl[c].mounted
  /\ cl' = [cl EXCEPT ![c] = Cleanup(cl[c])]
  /\ sockUp' = [sockUp EXCEPT ![c] = FALSE]
  /\ rooms' = [r \in Rooms |-> rooms[r] \ {c}]
  /\ upQ' = [upQ EXCEPT ![c] = <<>>]
  /\ downQ' = [downQ EXCEPT ![c] = <<>>]
  /\ Quiet
  /\ UNCHANGED <<lastJoin, connects, lastRecv, faults>>

\* the roomId prop changes while the component stays mounted and no
\* asynchronous call is in flight: the cleanup of the socket effect
\* disconnects the socket, the effect runs again with a new socket, and its
\* onConnect emits 'join' for the new room
RoomChange(c) ==
  /\ cl[c].mounted /\ sockUp[c]
  /\ cl[c].roomId = RoomId
  /\ cl[c].ops = <<>> /\ cl[c].gum = 0
  /\ cl' = [cl EXCEPT ![c].roomId = NewRoomId]
  /\ connects' = [connects EXCEPT ![c] = @ + 1]
  /\ rooms' = [r \in Rooms |-> rooms[r] \ {c}]
  /\ upQ' = [upQ EXCEPT ![c] = <<Msg("join", NewRoomId, NoDesc)>>]
  /\ downQ' = [downQ EXCEPT ![c] = <<>>]
  /\ Quiet
  /\ UNCHANGED <<lastJoin, sockUp, lastRecv, faults>>

\* ---------------------------------------------------------- specification
Init ==
  /\ rooms = [r \in Rooms |-> {}]
  /\ lastJoin = [sock |-> "none", room |-> "none", members |-> {},
                 roomSize |-> 0, role |-> "none", readyTo |-> {}]
  /\ sockUp = [c \in Clients |-> FALSE]
  /\ connects = [c \in Clients |-> 0]
  /\ upQ = [c \in Clients |-> <<>>]
  /\ downQ = [c \in Clients |-> <<>>]
  /\ cl = [c \in Clients |-> InitClient]
  /\ lastRecv = [c \in Clients |-> Msg("none", "none", NoDesc)]
  /\ env = 0
  /\ faults = 0

\* the steps of browser client c: its socket and the server's handling of it
SocketStep(c) ==
  \/ Connect(c)
  \/ ServerRecvJoin(c)
  \/ DeliverAck(c)
  \/ DeliverRoomReady(c)

\* the signaling handlers, local media and the peer connection's operations
NegotiationStep(c) ==
  \/ ServerRecvRelay(c)
  \/ DeliverOffer(c)
  \/ DeliverAnswer(c)
  \/ DeliverCandidate(c)
  \/ StartLocalStream(c)
  \/ MediaReady(c)
  \/ OpResolve(c)
  \/ DrainEffect(c)

FaultStep(c) ==
  \/ MediaFail(c)
  \/ OpFault(c)

ChannelStep(c) ==
  \/ \E l \in Labels : RemoteChannel(c, l)
  \/ \E i \in 1..(MaxRemoteChans + 1) : ChannelOpens(c, i)
  \/ \E i \in 1..(MaxRemoteChans + 1) : ChannelCloses(c, i)

\* the steps of another socket z, acting on the rooms in rs
RawStep(z, rs) ==
  \/ \E r \in rs : RawJoin(z, r)
  \/ RawLeave(z)
  \/ \E t \in {"offer", "answer", "candidate"}, r \in rs : RawSend(z, t, r)

\* one browser client in a room with arbitrary other sockets
Next ==
  \/ SocketStep("A")
  \/ Reconnect("A")
  \/ NegotiationStep("A")
  \/ OpReject("A")
  \/ FaultStep("A")
  \/ RawStep("Z", {RoomId})

Spec == Init /\ [][Next]_vars

\* the same, where the event loop of the client, its browser and the network
\* keep going: what is pending is eventually handled
SpecFair ==
  Spec /\ WF_vars(SocketStep("A") \/ NegotiationStep("A") \/ OpReject("A"))

\* the server with two browser clients and two other sockets coming and going
NextServer ==
  \/ \E c \in Clients : SocketStep(c) \/ Reconnect(c)
  \/ \E z \in Raws, r \in Rooms : RawJoin(z, r)
  \/ \E z \in Raws : RawLeave(z)

SpecServer == Init /\ [][NextServer]_vars

\* one browser client and its data channels, the peer being another socket
NextChannel ==
  \/ SocketStep("A")
  \/ NegotiationStep("A")
  \/ OpReject("A")
  \/ ChannelStep("A")
  \/ RawStep("Z", {RoomId})

SpecChannel == Init /\ [][NextChannel]_vars

\* one browser client that may leave the call at any moment
NextLeave ==
  \/ SocketStep("A")
  \/ NegotiationStep("A")
  \/ OpReject("A")
  \/ Unmount("A")
  \/ RawStep("Z", {RoomId})

SpecLeave == Init /\ [][NextLeave]_vars

\* one browser client, its data channels and the messages on them
MessageStep(c) ==
  \/ CallSendMessage(c)
  \/ SendThrows(c)

NextMessage ==
  \/ SocketStep("A")
  \/ NegotiationStep("A")
  \/ OpReject("A")
  \/ ChannelStep("A")
  \/ MessageStep("A")
  \/ RawStep("Z", {RoomId})

SpecMessage == Init /\ [][NextMessage]_vars

\* one browser client, its data channels and the messages arriving on them
InboxStep(c) ==
  \/ \E i \in 1..(MaxRemoteChans + 1), w \in WireMsgs : ChannelMessage(c, i, w)
  \/ GestureTimeout(c)

NextInbox ==
  \/ SocketStep("A")
  \/ NegotiationStep("A")
  \/ OpReject("A")
  \/ ChannelStep("A")
  \/ InboxStep("A")
  \/ RawStep("Z", {RoomId})

SpecInbox == Init /\ [][NextInbox]_vars

\* the gesture recognition of one client, frame after frame
Frames ==
  {[hand |-> present, joints |-> h.joints, ext |-> ext, tip |-> h.tip, dt |-> dt,
    throwing |-> {}, others |-> <<>>] :
     present \in BOOLEAN, h \in Hands, ext \in Shapes, dt \in Deltas}

NextGestures == \E f \in Frames : OnResults("A", f)

SpecGestures == Init /\ [][NextGestures]_vars

\* the state after construction with client A about to call a function of
\* the hook with the arguments p
InitProbe(p) ==
  /\ rooms = [r \in Rooms |-> {}]
  /\ lastJoin = [sock |-> "none", room |-> "none", members |-> {},
                 roomSize |-> 0, role |-> "none", readyTo |-> {}]
  /\ sockUp = [c \in Clients |-> FALSE]
  /\ connects = [c \in Clients |-> 0]
  /\ upQ = [c \in Clients |-> <<>>]
  /\ downQ = [c \in Clients |-> <<>>]
  /\ cl = [c \in Clients |->
             IF c = "A" THEN [InitClient EXCEPT !.probe = p] ELSE InitClient]
  /\ lastRecv = [c \in Clients |-> Msg("none", "none", NoDesc)]
  /\ env = 0
  /\ faults = 0

\* recognizeGesture on its own, for every hand and motion state of
\* ClassifierProbes
InitClassifier == \E p \in ClassifierProbes : InitProbe(p)
NextClassifier == Classify("A")
SpecClassifier == InitClassifier /\ [][NextClassifier]_vars

\* the callbacks of one client: handlers are registered and deregistered
\* while the camera shows a steady fist, and any of the registered handlers
\* may throw
CallbackFrames ==
  {[hand |-> TRUE, joints |-> JointCount, ext |-> {}, tip |-> 0, dt |-> 40,
    throwing |-> throwing, others |-> <<>>] :
     throwing \in SUBSET (1..MaxCallbacks)}
NextCallbacks ==
  \/ \E f \in CallbackFrames : OnResults("A", f)
  \/ Subscribe("A")
  \/ \E callback \in 1..MaxCallbacks : CallUnsubscribe("A", callback)
SpecCallbacks == Init /\ [][NextCallbacks]_vars

\* detection cycles with no hand, one hand and two hands (maxNumHands is 2)
\* while handlers are registered: the first hand is a fist or shows two
\* fingers, the second one is an open hand
OpenHand == HandOf(JointCount, {4, 8, 12, 16, 20}, 0, 0)
HandFrames ==
  {[hand |-> present, joints |-> JointCount, ext |-> ext, tip |-> 0, dt |-> 40,
    throwing |-> {}, others |-> others] :
     present \in BOOLEAN, ext \in {{}, {8, 12}}, others \in {<<>>, <<OpenHand>>}}
NextHands ==
  \/ \E f \in HandFrames : OnResults("A", f)
  \/ Subscribe("A")
SpecHands == Init /\ [][NextHands]_vars

\* recognizeGesture on the hands and velocity buffers of StopProbes
InitStop == \E p \in StopProbes : InitProbe(p)
SpecStop == InitStop /\ [][NextClassifier]_vars

\* normalizeLandmarks on its own, for every frame of NormalizeProbes
InitNormalize == \E p \in NormalizeProbes : InitProbe(p)
NextNormalize == Normalize("A")
SpecNormalize == InitNormalize /\ [][NextNormalize]_vars

\* two browser clients on a network that loses nothing, and browsers that
\* fail nothing
PairStep(c) ==
  \/ SocketStep(c)
  \/ NegotiationStep(c)
  \/ IceCandidate(c)

NextPair == \E c \in Clients : PairStep(c)

SpecPair == Init /\ [][NextPair]_vars /\ \A c \in Clients : WF_vars(PairStep(c))

\* two browser clients in one room and the data channel between them; the
\* event loops, the browsers and the network keep going
CallStep(c) ==
  \/ PairStep(c)
  \/ PeerChannel(c)
  \/ \E i \in 1..(MaxRemoteChans + 1) : ChannelOpens(c, i)

NextCall == \E c \in Clients : CallStep(c)

SpecCall == Init /\ [][NextCall]_vars /\ \A c \in Clients : WF_vars(CallStep(c))

\* one browser client whose roomId prop changes, with another socket in
\* either room
NextRoom ==
  \/ SocketStep("A")
  \/ NegotiationStep("A")
  \/ IceCandidate("A")
  \/ RoomChange("A")
  \/ RawStep("Z", Rooms)

SpecRoom == Init /\ [][NextRoom]_vars

\* one browser client and a peer that sends it an offer or an answer and
\* trickles its ICE candidates at any moment
NextIce ==
  \/ SocketStep("A")
  \/ NegotiationStep("A")
  \/ OpReject("A")
  \/ \E r \in {RoomId} : RawJoin("Z", r)
  \/ \E t \in {"offer", "answer"} : RawSend("Z", t, RoomId)
  \/ PeerCandidate("Z", "A")

SpecIce == Init /\ [][NextIce]_vars

\* the signaling handlers of a client that has not asked for its media yet
ReceiveStep(c) ==
  \/ DeliverOffer(c)
  \/ DeliverAnswer(c)
  \/ DeliverCandidate(c)

\* two browser clients in one room, the second one still without media, and
\* another socket that joins, leaves and sends into any room
NextRelay ==
  \/ SocketStep("A")
  \/ NegotiationStep("A")
  \/ SocketStep("B")
  \/ ReceiveStep("B")
  \/ RawStep("Z", Rooms)

SpecRelay == Init /\ [][NextRelay]_vars

\* ================================================================ properties
\* the packets a step appended to the queue towards client m
Sent(m) ==
  IF Len(downQ'[m]) > Len(downQ[m])
  THEN SubSeq(downQ'[m], Len(downQ[m]) + 1, Len(downQ'[m]))
  ELSE <<>>

OfType(q, t) == {k \in DOMAIN q : q[k].type = t}

\* the step in which client c handles a packet of type t
Delivered(c, t) ==
  /\ sockUp[c] /\ downQ[c] # <<>> /\ Head(downQ[c]).type = t
  /\ downQ'[c] = Tail(downQ[c])
  /\ connects' = connects

\* the step in which a getUserMedia call of client c resolves
MediaBecameReady(c) ==
  cl[c].gum > 0 /\ cl'[c].gum = cl[c].gum - 1 /\ faults' = faults

\* the step in which the server handles the 'join' of client c
JoinHandled(c) ==
  /\ sockUp[c] /\ upQ[c] # <<>> /\ Head(upQ[c]).type = "join"
  /\ upQ'[c] = Tail(upQ[c])
  /\ connects' = connects

\* C1: every join is acknowledged with the member count of the room after the
\* join, with role callee when that count is 1 and caller when it is 2 or more
C1_JoinAck ==
  /\ [](lastJoin.sock # "none" =>
          /\ lastJoin.sock \in lastJoin.members
          /\ lastJoin.roomSize = Cardinality(lastJoin.members)
          /\ lastJoin.role = IF lastJoin.roomSize = 1 THEN "callee" ELSE "caller")
  /\ [][\A c \in Clients :
          JoinHandled(c) =>
            LET n == Cardinality(rooms'[Head(upQ[c]).room])
            IN /\ c \in rooms'[Head(upQ[c]).room]
               /\ Sent(c) # <<>>
               /\ Head(Sent(c)) =
                    AckMsg(n, IF n = 1 THEN "callee" ELSE "caller")]_vars

\* a client that joined a room of two others holds the acknowledgement
C1_Witness ==
  \E c \in Clients :
    /\ lastJoin.sock = c /\ lastJoin.roomSize = 3
    /\ downQ[c] # <<>>
    /\ downQ[c][Len(downQ[c])] = AckMsg(3, "caller")

\* C2: room-ready is broadcast exactly when a join leaves the room at size 2,
\* to every member of the room, the joiner included; no other join emits it
C2_RoomReady ==
  /\ [](lastJoin.readyTo = IF lastJoin.roomSize = 2 THEN lastJoin.members ELSE {})
  /\ [][/\ \A r \in Rooms :
              (rooms'[r] # rooms[r] /\ rooms[r] \subseteq rooms'[r]
                 /\ Cardinality(rooms'[r]) = 2)
              => \A m \in rooms'[r] \cap Clients :
                   Cardinality(OfType(Sent(m), "room-ready")) = 1
        /\ \A m \in Clients :
              OfType(Sent(m), "room-ready") # {}
              => /\ Cardinality(OfType(Sent(m), "room-ready")) = 1
                 /\ \E r \in Rooms :
                      /\ m \in rooms'[r] /\ Cardinality(rooms'[r]) = 2
                      /\ lastJoin'.room = r
                      /\ \A o \in rooms'[r] \cap Clients :
                           OfType(Sent(o), "room-ready") # {}
        /\ \A c \in Clients :
              (JoinHandled(c) /\ Cardinality(rooms'[Head(upQ[c]).room]) = 1)
              => \A m \in Clients : OfType(Sent(m), "room-ready") = {}]_vars

\* the two clients are the two members and both hold a room-ready
C2_Witness ==
  /\ rooms[RoomId] = Clients
  /\ lastJoin.readyTo = Clients
  /\ \A c \in Clients : OfType(downQ[c], "room-ready") # {}

\* the offers, and the answers, a client has emitted so far
Offers(c) == OfType(cl[c].emitted, "offer")
Answers(c) == OfType(cl[c].emitted, "answer")

\* C3: an offer is sent only while the client's role is caller, it has
\* received room-ready and it has its local media stream; a client whose role
\* is callee never sends an offer
C3_OfferPreconditions ==
  [][\A c \in Clients :
       Offers(c)' # Offers(c) =>
         cl'[c].isInitiator /\ cl'[c].roomReady /\ cl'[c].localStream]_vars

\* C4: whatever the order and the repetition of room-ready and of local media
\* becoming ready, a client session sends at most one offer
C4_AtMostOneOffer == \A c \in Clients : Cardinality(Offers(c)) <= 1

\* the offer is out, and local media became ready a second time after that
\* (every startLocalStream call has completed, none failed)
C4_Witness ==
  /\ Cardinality(Offers("A")) = 1
  /\ cl["A"].mediaCalls >= 2 /\ cl["A"].gum = 0 /\ faults = 0
  /\ cl["A"].ops = <<>>

\* C5: when two sessions join the room one after the other, the second one,
\* whichever of local-media-ready and room-ready comes first, eventually sends
\* an offer, and never sends a second one
C5_SecondJoinerOffersOnce ==
  /\ [](\A c \in Clients : Cardinality(Offers(c)) <= 1)
  /\ \A c \in Clients :
       (lastJoin.sock = c /\ lastJoin.roomSize = 2)
         ~> (Cardinality(Offers(c)) = 1)

\* the second joiner has sent its offer
C5_Witness ==
  \E c \in Clients :
    /\ lastJoin.sock = c /\ lastJoin.roomSize = 2
    /\ cl[c].isInitiator /\ cl[c].roomReady /\ cl[c].localStream
    /\ Cardinality(Offers(c)) = 1

\* the answers client c has emitted to offer d
AnswersTo(c, d) ==
  {i \in Answers(c) : cl[c].emitted[i].data.re = d.from
                      /\ cl[c].emitted[i].data.n = d.n}

\* the operations of the deferred acceptOffer call that are still to complete
Accepting(c) == {j \in DOMAIN cl[c].ops : cl[c].ops[j].cont = "acceptOfferThenStart"}

\* C6: an offer received without local media goes to the pending slot and
\* nothing else happens (no peer connection, no answer); when local media
\* becomes available the slot is emptied and the stored offer accepted, and
\* exactly one answer is sent for it (unless the browser fails a step)
C6_DeferredOffer ==
  /\ [](\A c \in Clients :
          /\ cl[c].localStream => cl[c].pendingOffer = NoDesc
          /\ Len(cl[c].deferred) <= 1
          /\ \A k \in DOMAIN cl[c].deferred :
               /\ Cardinality(AnswersTo(c, cl[c].deferred[k]))
                    + Cardinality(Accepting(c)) <= 1
               /\ faults = 0 =>
                    Cardinality(AnswersTo(c, cl[c].deferred[k]))
                      + Cardinality(Accepting(c)) = 1)
  /\ [][\A c \in Clients :
          (Delivered(c, "offer") /\ ~cl[c].localStream) =>
            cl'[c] = [cl[c] EXCEPT !.pendingOffer = Head(downQ[c]).data]]_vars
  /\ [][\A c \in Clients :
          (MediaBecameReady(c) /\ cl[c].pendingOffer # NoDesc) =>
            /\ cl'[c].pendingOffer = NoDesc
            /\ cl'[c].deferred = <<cl[c].pendingOffer>>
            /\ cl'[c].pcRef
            /\ cl'[c].ops = Append(cl[c].ops,
                              [op |-> "srd", cont |-> "acceptOfferThenStart",
                               arg |-> cl[c].pendingOffer, gen |-> cl'[c].pc.gen])]_vars
  /\ \A c \in Clients :
       (cl[c].deferred # <<>>)
         ~> (\/ faults > 0
             \/ \A k \in DOMAIN cl[c].deferred :
                  Cardinality(AnswersTo(c, cl[c].deferred[k])) = 1)

\* a deferred offer has been accepted and answered
C6_Witness ==
  /\ cl["A"].deferred # <<>>
  /\ cl["A"].pendingOffer = NoDesc
  /\ Cardinality(AnswersTo("A", cl["A"].deferred[1])) = 1

\* C7: handleAnswer hands an answer to the peer connection only when the
\* connection exists and is in have-local-offer; any other answer is dropped
\* and leaves the whole client state (signaling state, flags, pending offer,
\* candidate queue, error) as it was
C7_AnswerGuard ==
  [][\A c \in Clients :
       Delivered(c, "answer") =>
         IF cl[c].pcRef /\ cl[c].pc.sig = "have-local-offer"
         THEN /\ cl'[c].pc.srdAnswers =
                   Append(cl[c].pc.srdAnswers, Head(downQ[c]).data)
              /\ Len(cl'[c].ops) = Len(cl[c].ops) + 1
         ELSE cl'[c] = cl[c]]_vars

\* the client has a peer connection, the last packet it handled is an
\* answer, and no answer was ever handed to the connection
C7_Witness ==
  /\ lastRecv["A"].type = "answer"
  /\ cl["A"].pcRef /\ cl["A"].pc.sig = "stable"
  /\ cl["A"].pc.srdAnswers = <<>>
  /\ cl["A"].error = "none"

\* C8: at most one answer is handed to the peer connection per offer sent,
\* however the deliveries of answers interleave with the completion of
\* setRemoteDescription
C8_OneAnswerPerOffer ==
  \A c \in Clients : Len(cl[c].pc.srdAnswers) <= Cardinality(Offers(c))

\* the candidates handed to addIceCandidate by the drain, in call order
ViaDrain(x) == x.via = "drain"
Drained(c) ==
  LET calls == SelectSeq(cl[c].iceCalls, ViaDrain)
  IN [i \in DOMAIN calls |-> calls[i].cand]

\* C9: a candidate received while there is no peer connection, or a closed
\* one, is appended to the pending queue and not handed to the connection;
\* the drain hands the buffered candidates over in arrival order and drops
\* none; a drain that is due empties the queue
C9_CandidateBuffer ==
  /\ [](\A c \in Clients : cl[c].buffered = Drained(c) \o cl[c].pendingCandidates)
  /\ [][\A c \in Clients :
          (Delivered(c, "candidate") /\ (~cl[c].pcRef \/ cl[c].pc.sig = "closed")) =>
            cl'[c] = [cl[c] EXCEPT
                        !.pendingCandidates = Append(@, Head(downQ[c]).data),
                        !.buffered = Append(@, Head(downQ[c]).data)]]_vars
  /\ \A c \in Clients : cl[c].drainDue ~> (cl[c].pendingCandidates = <<>>)

\* two candidates were buffered and the drain has handed over both
C9_Witness ==
  /\ Len(cl["A"].buffered) = 2
  /\ cl["A"].buffered[1] # cl["A"].buffered[2]
  /\ cl["A"].pendingCandidates = <<>>
  /\ Len(Drained("A")) = 2
  /\ cl["A"].ops = <<>>

\* the adopted channels of client c that are open
OpenChans(c) == {i \in DOMAIN cl[c].chans : cl[c].chans[i].state = "open"}

\* C10: isConnected turns true only in the open event of an adopted data
\* channel, and every adopted channel is labeled gestures; it is not true
\* without an open channel; the close event of an adopted channel turns it
\* false; a remote channel with another label is not adopted
C10_ConnectedFlag ==
  /\ [](\A c \in Clients :
          /\ \A i \in DOMAIN cl[c].chans : cl[c].chans[i].label = "gestures"
          /\ cl[c].isConnected => OpenChans(c) # {})
  /\ [][\A c \in Clients :
          /\ (~cl[c].isConnected /\ cl'[c].isConnected) =>
               \E i \in DOMAIN cl[c].chans :
                 /\ cl[c].chans[i].state = "connecting"
                 /\ cl'[c].chans[i].state = "open"
                 /\ cl[c].chans[i].label = "gestures"
          /\ (\E i \in DOMAIN cl[c].chans :
                cl[c].chans[i].state = "open" /\ cl'[c].chans[i].state = "closed")
               => ~cl'[c].isConnected]_vars

\* the caller was announced a channel that it did not adopt, and the gestures
\* channel it created has opened
C10_Witness ==
  /\ cl["A"].isInitiator
  /\ cl["A"].remoteChans = 1
  /\ Len(cl["A"].chans) = 1
  /\ cl["A"].isConnected
  /\ OpenChans("A") = {1}

\* C11: sendMessage without a data channel, or with one that is not open,
\* hands nothing to a channel, returns false and changes nothing else; it
\* returns true only when it handed the message to an open channel
C11_SendMessage ==
  [][\A c \in Clients :
       (CallSendMessage(c) \/ SendThrows(c)) =>
         LET dc == cl[c].dataChannelRef
             open == dc # 0 /\ cl[c].chans[dc].state = "open"
         IN /\ ~open => cl'[c] = [cl[c] EXCEPT !.lastSend = "false"]
            /\ cl'[c].lastSend = "true" =>
                 open /\ cl'[c].dcSent = cl[c].dcSent + 1
            /\ cl'[c].lastSend = "false" => cl'[c].dcSent = cl[c].dcSent
            /\ upQ' = upQ]_vars

\* sendMessage has returned false while the current channel was not open,
\* and nothing was ever handed to a channel
C11_Witness ==
  /\ cl["A"].lastSend = "false"
  /\ cl["A"].dataChannelRef # 0
  /\ cl["A"].chans[cl["A"].dataChannelRef].state = "closed"
  /\ cl["A"].dcSent = 0 /\ faults = 0

\* C12: leaving closes the peer connection and the data channels and stops
\* every acquired media track, wherever the leave falls, also when
\* getUserMedia or an offer/answer step is in flight; after the leave nothing
\* is sent and nothing is applied to a peer connection
C12_Leave ==
  /\ [](\A c \in Clients :
          ~cl[c].mounted =>
            /\ ~cl[c].pcRef /\ cl[c].pc.sig \in {"none", "closed"}
            /\ \A i \in DOMAIN cl[c].chans : cl[c].chans[i].state = "closed"
            /\ cl[c].gum = 0 => cl[c].liveStreams = 0)
  /\ [][\A c \in Clients :
          ~cl[c].mounted =>
            /\ cl'[c].emitted = cl[c].emitted
            /\ cl'[c].dcSent = cl[c].dcSent
            /\ cl'[c].pc = cl[c].pc
            /\ upQ'[c] = upQ[c]]_vars

\* C13: a failing setLocalDescription, setRemoteDescription, createOffer,
\* createAnswer or addIceCandidate is caught; a failure of the first four
\* sets the error of its handler, a failing addIceCandidate sets none; the
\* peer connection with its signaling state, the role, roomReady, the pending
\* offer are as before the operation and nothing is emitted; offerSent and
\* the pending candidates change only through the code that runs after the
\* catch (maybeStartCall in startLocalStream, the next turn of the drain loop)
C13_FailureKeepsState ==
  [][\A c \in Clients :
       (OpReject(c) \/ OpFault(c)) =>
         LET st == cl[c]
             o == Head(st.ops)
             message ==
               CASE o.cont \in {"acceptOffer", "acceptOfferThenStart"} ->
                      "Failed to handle offer"
                 [] o.cont = "createAndSendOffer" -> "Failed to start call"
                 [] o.cont = "handleAnswer" -> "Failed to handle answer"
                 [] OTHER -> st.error
         IN /\ cl'[c].pc = st.pc
            /\ cl'[c].pcRef = st.pcRef
            /\ cl'[c].isInitiator = st.isInitiator
            /\ cl'[c].roomReady = st.roomReady
            /\ cl'[c].pendingOffer = st.pendingOffer
            /\ cl'[c].emitted = st.emitted
            /\ upQ'[c] = upQ[c]
            /\ cl'[c].error = message
            /\ o.op = "addIce" <=> o.cont \in {"handleCandidate", "drain"}
            /\ cl'[c].offerSent # st.offerSent =>
                 o.cont = "acceptOfferThenStart" /\ ~st.offerSent
            /\ cl'[c].pendingCandidates # st.pendingCandidates =>
                 /\ o.cont = "drain"
                 /\ cl'[c].pendingCandidates = Tail(st.pendingCandidates)]_vars

\* createAnswer or setLocalDescription failed after the remote offer was set:
\* the error is set, no answer went out, the connection waits in
\* have-remote-offer
C13_Witness ==
  /\ faults > 0
  /\ cl["A"].error = "Failed to handle offer"
  /\ cl["A"].pc.sig = "have-remote-offer"
  /\ cl["A"].ops = <<>>
  /\ Answers("A") = {}

\* C14: once the first join acknowledgement was handled, no step changes
\* whether the client is the initiator, the acknowledgement of the join that
\* a reconnect re-emits included
C14_RoleAssignedOnce ==
  [][\A c \in Clients :
       cl[c].acks > 0 => cl'[c].isInitiator = cl[c].isInitiator]_vars

\* C15: the server relays an offer, answer or candidate to every other
\* member of the room it was sent to, never back to the socket that sent it
\* and never to a socket that is not a member of that room
C15_Relay ==
  [][/\ \A c \in Clients :
          ServerRecvRelay(c) =>
            LET m == Head(upQ[c])
            IN \A o \in Clients :
                 Sent(o) = IF o \in rooms[m.room] /\ o # c THEN <<m>> ELSE <<>>
     /\ \A z \in Raws, t \in {"offer", "answer", "candidate"}, r \in Rooms :
          RawSend(z, t, r) =>
            \A o \in Clients :
              /\ o \in rooms[r] => Len(Sent(o)) = 1 /\ Sent(o)[1].room = r
              /\ o \notin rooms[r] => Sent(o) = <<>>]_vars

\* B handled the offer that A sent into the room both are in, and nothing came
\* back to A
C15_Witness ==
  /\ lastRecv["B"].type = "offer"
  /\ lastRecv["B"].data.from = "A"
  /\ {"A", "B"} \subseteq rooms[RoomId]
  /\ Offers("A") # {}
  /\ lastRecv["A"].type # "offer"

\* the message shapes the receiver is to ignore
Unknown(w) == ~w.json \/ w.type # "gesture" \/ ~w.data
\* a gesture message in the wire format
WellFormed(w) ==
  w.json /\ w.type = "gesture" /\ w.data /\ w.hasText /\ w.hasConfidence

\* C16 as stated: a message that is not JSON, is not of type gesture or has
\* no data changes nothing (remote gesture, error, channels, connected flag);
\* a well-formed gesture message sets the remote gesture to its text and
\* confidence
C16_AsStated ==
  [][\A c \in Clients, i \in 1..(MaxRemoteChans + 1), w \in WireMsgs :
       ChannelMessage(c, i, w) =>
         /\ Unknown(w) => cl'[c] = [cl[c] EXCEPT !.lastMsg = w]
         /\ WellFormed(w) =>
              cl'[c].remoteGesture =
                [set |-> TRUE, text |-> w.text, confidence |-> w.confidence]]_vars

\* C16: a message that is not JSON, is not of type gesture or has no data
\* changes nothing; a well-formed gesture message sets the remote gesture to
\* its confidence and to its text, or to 'Unknown gesture' when the text is
\* empty, and changes nothing else
C16_Messages ==
  [][\A c \in Clients, i \in 1..(MaxRemoteChans + 1), w \in WireMsgs :
       ChannelMessage(c, i, w) =>
         /\ Unknown(w) => cl'[c] = [cl[c] EXCEPT !.lastMsg = w]
         /\ WellFormed(w) =>
              cl'[c] = [cl[c] EXCEPT
                          !.lastMsg = w,
                          !.remoteGesture =
                            [set |-> TRUE,
                             text |-> IF w.text = "" THEN "Unknown gesture"
                                      ELSE w.text,
                             confidence |-> w.confidence]]]_vars

\* a well-formed gesture message with an empty text was handled
C16_Witness ==
  /\ WellFormed(cl["A"].lastMsg)
  /\ cl["A"].lastMsg.text = ""
  /\ cl["A"].remoteGesture.set
  /\ cl["A"].remoteGesture.text = "Unknown gesture"
  /\ cl["A"].isConnected

\* buffer holds the n most recent entries of log, in the order of log
MostRecent(buffer, log, n) ==
  /\ Len(buffer) = (IF Len(log) < n THEN Len(log) ELSE n)
  /\ \A k \in 1..Len(buffer) : buffer[k] = log[Len(log) - Len(buffer) + k]

\* C17: after any sequence of frames the velocity buffer, the frame-history
\* buffer and the raw gesture history hold at most 15 entries each, namely the
\* most recent ones in arrival order (the oldest entry is the one evicted)
C17_Buffers ==
  \A c \in Clients :
    LET g == cl[c].gest
    IN /\ MostRecent(g.velocities, g.velLog, 15)
       /\ MostRecent(g.motionHistory, g.frameLog, 15)
       /\ MostRecent(g.gestureHistory, g.rawLog, 15)
       /\ Len(g.velocities) <= 15
       /\ Len(g.motionHistory) <= 15
       /\ Len(g.gestureHistory) <= 15

\* all three buffers have evicted an entry
C17_Witness ==
  LET g == cl["A"].gest
  IN /\ Len(g.velLog) > 15 /\ Len(g.velocities) = 15
     /\ Len(g.frameLog) > 15 /\ Len(g.motionHistory) = 15
     /\ Len(g.rawLog) > 15 /\ Len(g.gestureHistory) = 15
     /\ g.motionHistory[1].timestamp < g.motionHistory[15].timestamp

\* C18: a frame whose timestamp is not later than that of the frame before
\* it, or whose joint count differs from that frame's, gets a velocity entry
\* of zeros only
C18_ZeroVelocity ==
  [][\A c \in Clients, f \in Frames :
       LET g == cl[c].gest
       IN (/\ OnResults(c, f)
           /\ f.hand /\ g.hasPrev
           /\ f.dt <= 0 \/ Len(Landmarks(f)) # Len(g.prevLandmarks)) =>
            LET after == cl'[c].gest
                pushed == after.velocities[Len(after.velocities)]
            IN /\ Len(after.velLog) = Len(g.velLog) + 1
               /\ \A i \in DOMAIN pushed : pushed[i] = ZeroVelocity]_vars

\* the stable label: what lastGestureRef holds, UNKNOWN before the first one
StableLabel(g) == IF g.lastGesture = "" THEN "UNKNOWN" ELSE g.lastGesture

\* the reference smoother: of all raw labels so far the last 15 are the
\* history and the last 9 of these the window; the winner is the non-UNKNOWN
\* label with the highest count, among equals the one seen first in the window
RefWindow(log) ==
  LET history == [k \in 1..(IF Len(log) < 15 THEN Len(log) ELSE 15) |->
                    log[Len(log) - (IF Len(log) < 15 THEN Len(log) ELSE 15) + k]]
      n == IF Len(history) < 9 THEN Len(history) ELSE 9
  IN [k \in 1..n |-> history[Len(history) - n + k]]
RefCount(w, l) == Cardinality({k \in DOMAIN w : w[k] = l})
RefFirst(w, l) == CHOOSE k \in DOMAIN w : w[k] = l /\ \A j \in 1..(k - 1) : w[j] # l
RefVoted(w) == {w[k] : k \in DOMAIN w} \ {"UNKNOWN"}
RefWins(w, l) ==
  /\ l \in RefVoted(w)
  /\ \A m \in RefVoted(w) \ {l} :
       \/ RefCount(w, l) > RefCount(w, m)
       \/ RefCount(w, l) = RefCount(w, m) /\ RefFirst(w, l) < RefFirst(w, m)
Reference(log, previous) ==
  LET w == RefWindow(log)
  IN IF \E l \in RefVoted(w) : RefWins(w, l) /\ RefCount(w, l) >= 3
     THEN CHOOSE l \in RefVoted(w) : RefWins(w, l)
     ELSE previous

\* C19: after every frame with a hand the stable label is the one the
\* reference smoother gives for the raw labels so far and the stable label
\* before the frame
C19_Smoother ==
  [][\A c \in Clients, f \in Frames :
       OnResults(c, f) /\ f.hand =>
         StableLabel(cl'[c].gest) =
           Reference(cl'[c].gest.rawLog, StableLabel(cl[c].gest))]_vars

\* the window [A,A,B,B,B,C,C,C,C] has made C the stable label
C19_Witness ==
  LET g == cl["A"].gest
  IN /\ Len(g.rawLog) = 9
     /\ g.gestureHistory = <<"FIST", "FIST", "PEACE_SIGN", "PEACE_SIGN", "PEACE_SIGN",
                             "OPEN_HAND", "OPEN_HAND", "OPEN_HAND", "OPEN_HAND">>
     /\ g.lastGesture = "OPEN_HAND"

\* the entries of the voting window of history
Window(history) ==
  {history[k] : k \in {j \in DOMAIN history : j > Len(history) - 9}}
\* how many of the last 9 raw labels, the new one included, are UNKNOWN
UnknownsAfter(history, raw) ==
  Cardinality({k \in DOMAIN history :
                 k > Len(history) - 8 /\ history[k] = "UNKNOWN"})
  + (IF raw = "UNKNOWN" THEN 1 ELSE 0)

\* the raw label processHands gets for frame f once it has put the frame's
\* velocities into the buffer
RawLabel(velocities, f) ==
  IF NormalizeThrows(Landmarks(f)) THEN "TypeError"
  ELSE RecognizeGesture(NormalizeLandmarks(Landmarks(f)), velocities)

\* C20: while the stable label is L and the voting window holds a run of L
\* with at most a single UNKNOWN in it, an UNKNOWN frame and every L frame
\* after it leave the stable label at L
C20_Sticky ==
  [][\A c \in Clients, f \in Frames :
       LET g == cl[c].gest
           L == g.lastGesture
       IN (/\ OnResults(c, f) /\ f.hand
           /\ L \notin {"", "UNKNOWN"}
           /\ Window(g.gestureHistory) \subseteq {L, "UNKNOWN"}
           /\ RawLabel(cl'[c].gest.velocities, f) \in {L, "UNKNOWN"}
           /\ UnknownsAfter(g.gestureHistory,
                            RawLabel(cl'[c].gest.velocities, f)) <= 1) =>
            cl'[c].gest.lastGesture = L]_vars

\* a run of FIST, one UNKNOWN frame, FIST again: the stable label is FIST
C20_Witness ==
  LET g == cl["A"].gest
  IN /\ g.rawLog = <<"FIST", "FIST", "FIST", "FIST", "UNKNOWN", "FIST", "FIST">>
     /\ g.lastGesture = "FIST"

\* C21: every gesture event passed to the callbacks has confidence 0.9 when
\* its label is not UNKNOWN and 0.4 when it is UNKNOWN, and no other value
\* (confidences are counted in tenths)
C21_Confidence ==
  \A c \in Clients :
    LET e == cl[c].gest.lastEvent
    IN e.set =>
         /\ e.gesture # "UNKNOWN" => e.confidence = 9
         /\ e.gesture = "UNKNOWN" => e.confidence = 4
         /\ e.confidence \in {4, 9}
         /\ cl[c].gest.confidence = e.confidence

\* an event for FIST was emitted after the events for UNKNOWN of the first
\* frames
C21_Witness ==
  LET g == cl["A"].gest
  IN /\ g.lastEvent.set /\ g.lastEvent.gesture = "FIST"
     /\ g.lastEvent.confidence = 9
     /\ Len(g.rawLog) = 3 /\ g.rawLog[1] = "FIST"

\* the order in which recognizeGesture is said to try its predicates, and
\* whether the predicate of a label holds
Order ==
  <<"WAVE", "STOP", "CALL_ME", "ROCK_SIGN", "THUMB_UP", "THUMB_DOWN", "FIST",
    "RAISED_FIST", "OK_SIGN", "PINCH", "PEACE_SIGN", "VICTORY_ALT", "CLAW",
    "POINT_UP", "POINT_RIGHT", "POINT_LEFT", "POINT_DOWN", "PALM_UP",
    "PALM_DOWN", "THREE_FINGERS", "FOUR_FINGERS", "FINGER_HEART",
    "CROSS_FINGERS", "HANDSHAKE_START", "PRAY", "OPEN_HAND">>
Holds(label, landmarks, velocities) ==
  CASE label = "WAVE" -> IsWave(landmarks, velocities)
    [] label = "STOP" -> IsStop(landmarks, velocities)
    [] label = "CALL_ME" -> IsCallMe(landmarks)
    [] label = "ROCK_SIGN" -> IsRockSign(landmarks)
    [] label = "THUMB_UP" -> IsThumbUp(landmarks)
    [] label = "THUMB_DOWN" -> IsThumbDown(landmarks)
    [] label = "FIST" -> IsFist(landmarks)
    [] label = "RAISED_FIST" -> IsRaisedFist(landmarks)
    [] label = "OK_SIGN" -> IsOkSign(landmarks)
    [] label = "PINCH" -> IsPinch(landmarks)
    [] label = "PEACE_SIGN" -> IsPeaceSign(landmarks)
    [] label = "VICTORY_ALT" -> IsVictoryAlt(landmarks)
    [] label = "CLAW" -> IsClaw(landmarks)
    [] label = "POINT_UP" -> IsPointUp(landmarks)
    [] label = "POINT_RIGHT" -> IsPointRight(landmarks)
    [] label = "POINT_LEFT" -> IsPointLeft(landmarks)
    [] label = "POINT_DOWN" -> IsPointDown(landmarks)
    [] label = "PALM_UP" -> IsPalmUp(landmarks)
    [] label = "PALM_DOWN" -> IsPalmDown(landmarks)
    [] label = "THREE_FINGERS" -> IsThreeFingers(landmarks)
    [] label = "FOUR_FINGERS" -> IsFourFingers(landmarks)
    [] label = "FINGER_HEART" -> IsFingerHeart(landmarks)
    [] label = "CROSS_FINGERS" -> IsCrossFingers(landmarks)
    [] label = "HANDSHAKE_START" -> IsHandshakeLike(landmarks)
    [] label = "PRAY" -> IsPrayLike(landmarks)
    [] label = "OPEN_HAND" -> IsOpenHand(landmarks)

\* C22: the raw label of a frame is the label of the first predicate that
\* holds in the order WAVE, STOP, CALL_ME, ..., PRAY, OPEN_HAND, and UNKNOWN
\* when none holds; a frame with the WAVE motion pattern and an open hand is
\* labelled WAVE
C22_Priority ==
  \A c \in Clients :
    LET p == cl[c].probe
        landmarks == NormalizeLandmarks(p.landmarks)
        holding == {k \in DOMAIN Order : Holds(Order[k], landmarks, p.velocities)}
    IN p.done =>
         /\ holding = {} => p.label = "UNKNOWN"
         /\ holding # {} =>
              \E k \in holding : /\ p.label = Order[k]
                                  /\ \A j \in holding : k <= j
         /\ (IsWave(landmarks, p.velocities) /\ IsOpenHand(landmarks)) =>
              p.label = "WAVE"

\* a waving open hand, for which the predicates of WAVE, of OPEN_HAND and of
\* PALM_UP hold, was labelled WAVE
C22_Witness ==
  LET p == cl["A"].probe
      landmarks == NormalizeLandmarks(p.landmarks)
  IN /\ p.done /\ p.label = "WAVE"
     /\ p.velocities = Waving
     /\ IsOpenHand(landmarks) /\ IsPalmUp(landmarks)

\* C23: processing a frame with fewer than 21 joints (the empty frame and a
\* frame with fewer than 18 joints among them) does not throw, and the
\* frame's raw label is UNKNOWN
C23_ShortFrames ==
  [][\A c \in Clients, f \in Frames :
       (OnResults(c, f) /\ f.hand /\ f.joints < 21) =>
         LET after == cl'[c].gest
         IN /\ ~after.threw
            /\ Len(after.rawLog) = Len(cl[c].gest.rawLog) + 1
            /\ after.rawLog[Len(after.rawLog)] = "UNKNOWN"]_vars

\* the callbacks registered with client c, in the order of callbacksRef
Registered(g) == {g.callbacks[k] : k \in DOMAIN g.callbacks}

\* C24: for every processed frame each registered callback is invoked exactly
\* once within the cycle, in registration order, with the stabilized label; a
\* callback that throws does not keep the later ones from being invoked; a
\* callback whose deregistration handle was called is not registered again,
\* so it is not invoked for a later frame, while the others stay registered
C24_Callbacks ==
  [][\A c \in Clients :
       LET g == cl[c].gest
           after == cl'[c].gest
       IN /\ \A f \in CallbackFrames :
               OnResults(c, f) =>
                 /\ Len(after.calls) = Len(g.callbacks)
                 /\ \A k \in DOMAIN g.callbacks :
                      /\ after.calls[k].callback = g.callbacks[k]
                      /\ after.calls[k].gesture = StableLabel(after)
                      /\ after.calls[k].threw = (g.callbacks[k] \in f.throwing)
                 /\ \A j, k \in DOMAIN after.calls :
                      j < k => after.calls[j].callback < after.calls[k].callback
          /\ \A callback \in 1..MaxCallbacks :
               CallUnsubscribe(c, callback) =>
                 /\ callback \notin Registered(after)
                 /\ Registered(after) = Registered(g) \ {callback}
          /\ \A callback \in 1..g.issued :
               callback \notin Registered(g) => callback \notin Registered(after)]_vars

\* the first of three callbacks was deregistered; in the latest cycle the
\* second one threw and the third was invoked all the same, both with the
\* stable label, still UNKNOWN, while the frame's raw label was FIST
C24_Witness ==
  LET g == cl["A"].gest
  IN /\ g.issued = 3 /\ g.callbacks = <<2, 3>>
     /\ g.calls = <<[callback |-> 2, gesture |-> "UNKNOWN", threw |-> TRUE],
                    [callback |-> 3, gesture |-> "UNKNOWN", threw |-> FALSE]>>
     /\ Len(g.rawLog) = 2 /\ g.rawLog[2] = "FIST"

\* C25: for a frame of 21 joints whose index and pinky knuckles are apart,
\* the normalised frame does not change when the frame is translated or
\* scaled by a positive factor in x and y; normalising the normalised frame
\* gives it again; and the normalised wrist is at (0, 0)
C25_Normalize ==
  \A c \in Clients :
    LET p == cl[c].probe
    IN p.done =>
         /\ \A k \in Scalings, t \in Shifts :
              NormalizeLandmarks(Transformed(p.landmarks, k, t[1], t[2]))
                = p.normalized
         /\ NormalizeLandmarks(p.normalized) = p.normalized
         /\ p.normalized[1].x = 0 /\ p.normalized[1].y = 0

\* a peace sign three times the size of the unit hand and away from the
\* origin was normalised to the unit hand with its wrist at the origin
C25_Witness ==
  LET p == cl["A"].probe
  IN /\ p.done
     /\ p.landmarks = Transformed(HandOf(JointCount, {8, 12}, 0, 0), 3, 1, 2)
     /\ p.normalized = Transformed(HandOf(JointCount, {8, 12}, 0, 0), 1, -2, -3)
     /\ Distance2D(p.landmarks[6], p.landmarks[18]) = 3

\* the caller and the callee of the room
Caller(c) == cl[c].isInitiator /\ cl[c].acks > 0
Callee(c) == ~cl[c].isInitiator /\ cl[c].acks > 0

\* the call between caller c and callee d is up: c sent an offer, d answered
\* it, c applied the answer, and the gestures channel is open on both sides
Connected(c, d) ==
  /\ Caller(c) /\ Callee(d)
  /\ Cardinality(Offers(c)) = 1
  /\ Answers(d) # {}
  /\ cl[c].pc.srdAnswers # <<>>
  /\ Established(cl[c].pc) /\ Established(cl[d].pc)
  /\ \A e \in {c, d} :
       /\ cl[e].isConnected
       /\ cl[e].dataChannelRef # 0
       /\ cl[e].chans[cl[e].dataChannelRef].label = "gestures"
       /\ cl[e].chans[cl[e].dataChannelRef].state = "open"

\* C26: with a signaling channel that delivers every message, no SDP/ICE
\* failure and both peers acquiring local media, two clients that join the
\* room one after the other eventually are connected, in whatever order the
\* acknowledgements, room-ready, media-ready, offer and candidates arrive
C26_EventuallyConnected ==
  <>[](\E c, d \in Clients : c # d /\ Connected(c, d))

\* both sides are connected, and the callee got the offer before its media
C26_Witness ==
  \E c, d \in Clients :
    /\ c # d /\ Connected(c, d)
    /\ cl[d].deferred # <<>>
    /\ cl[c].iceCalls # <<>> /\ cl[d].iceCalls # <<>>

\* client c has a peer connection that is not closed and has its remote
\* description
Usable(c) == cl[c].pcRef /\ cl[c].pc.sig # "closed" /\ cl[c].pc.hasRemote

\* C27: every candidate buffered for want of a peer connection is handed to
\* the connection once it exists and has its remote description, and no
\* candidate stays in the pending queue forever while such a connection exists
C27_PendingApplied ==
  \A c \in Clients :
    /\ Usable(c) ~> (Drained(c) = cl[c].buffered)
    /\ []<>(~Usable(c) \/ cl[c].pendingCandidates = <<>>)

\* a candidate came before the offer; the connection the offer created has
\* its remote description and was handed the candidate
C27_Witness ==
  /\ Len(cl["A"].buffered) = 1
  /\ Usable("A") /\ cl["A"].remoteStream /\ ~cl["A"].isInitiator
  /\ Drained("A") = cl["A"].buffered
  /\ cl["A"].iceCalls[1].via = "drain"
  /\ faults = 0

\* the answer at the head of the queue of client c replies to an offer of c
\* and comes from the other browser client
ReplyAtHead(c) ==
  /\ Head(downQ[c]).data.from \in Clients \ {c}
  /\ Head(downQ[c]).data.re = c

\* C28: a client emits its offer only once the offer is its local description
\* (signaling state have-local-offer), and emits its answer only once the
\* remote offer is set and the answer is created and set as local description;
\* an answer to an offer reaches the caller in have-local-offer, not before
C28_ProtocolOrder ==
  [][\A c \in Clients :
       /\ Offers(c)' # Offers(c) =>
            cl'[c].pc.sig = "have-local-offer" /\ cl'[c].pc.hasLocal
       /\ Answers(c)' # Answers(c) =>
            /\ Established(cl'[c].pc)
            /\ \E d \in Clients \ {c} : Offers(d) # {}
       /\ (Delivered(c, "answer") /\ ReplyAtHead(c)) =>
            /\ cl[c].pc.sig = "have-local-offer" /\ cl[c].pc.hasLocal
            /\ Offers(c) # {}]_vars

\* the caller is in have-local-offer, its offer is out, and the answer of
\* the callee, whose connection is established, is about to reach it
C28_Witness ==
  \E c, d \in Clients :
    /\ c # d /\ Offers(c) # {} /\ Answers(d) # {}
    /\ cl[c].pc.sig = "have-local-offer"
    /\ Established(cl[d].pc)
    /\ downQ[c] # <<>> /\ Head(downQ[c]).type = "answer" /\ ReplyAtHead(c)

\* C29: what a session set up for one room is not used for another: in the
\* step that changes roomId without a leave the session flags, the pending
\* offer, the pending candidates and the peer connection do not carry over,
\* and nothing is emitted for a room other than the current one
C29_RoomSession ==
  [][\A c \in Clients :
       /\ cl'[c].roomId # cl[c].roomId =>
            /\ ~cl'[c].roomReady /\ ~cl'[c].offerSent
            /\ cl'[c].pendingOffer = NoDesc
            /\ cl'[c].pendingCandidates = <<>>
            /\ ~cl'[c].pcRef
       /\ \A k \in DOMAIN cl'[c].emitted :
            k > Len(cl[c].emitted) => cl'[c].emitted[k].room = cl'[c].roomId]_vars

\* client c has received the acknowledgement of its last join
Acknowledged(c) ==
  /\ cl[c].acks > 0
  /\ OfType(upQ[c], "join") = {}
  /\ OfType(downQ[c], "ack") = {}

\* C30: after any joins and disconnects, when the room has exactly two
\* members and both have received their join acknowledgement, one of them is
\* the caller and the other the callee
C30_OneCaller ==
  \A r \in Rooms :
    (rooms[r] = Clients /\ \A c \in Clients : Acknowledged(c)) =>
      \E c, d \in Clients : c # d /\ cl[c].isInitiator /\ ~cl[d].isInitiator

\* C31: candidates are handed to the peer connection in the order they were
\* received, across the buffered and the direct path: one that arrives during
\* the drain is not handed over before one received earlier
C31_CandidateOrder ==
  \A c \in Clients :
    \A i, j \in DOMAIN cl[c].iceCalls :
      i < j => cl[c].iceCalls[i].cand.n < cl[c].iceCalls[j].cand.n

\* C32: a client has a peer connection only if it has already acquired its
\* local media stream, so every peer connection is created with the local
\* tracks attached
C32_PcNeedsStream ==
  \A c \in Clients :
    /\ cl[c].pcRef => cl[c].localStream
    /\ cl[c].pc.sig # "none" => cl[c].pc.tracks

\* an offer came before the media and was stored; the peer connection was
\* created for it once the stream was there
C32_Witness ==
  /\ cl["A"].pcRef /\ cl["A"].localStream /\ cl["A"].pc.tracks
  /\ cl["A"].deferred # <<>>
  /\ cl["A"].pc.gen = 1

\* C33: once createOffer or setLocalDescription has failed in
\* createAndSendOffer, offerSent stays set and the session never sends an
\* offer, whatever room-ready and media-ready events follow
C33_NoOfferAfterFailure ==
  \A c \in Clients :
    [](cl[c].error = "Failed to start call" =>
         [](cl[c].offerSent /\ Offers(c) = {}))

\* the start of the call failed, and local media became ready once more:
\* still no offer
C33_Witness ==
  /\ cl["A"].error = "Failed to start call"
  /\ cl["A"].offerSent /\ cl["A"].isInitiator /\ cl["A"].roomReady
  /\ cl["A"].mediaCalls >= 2 /\ cl["A"].gum = 0 /\ cl["A"].liveStreams >= 2
  /\ cl["A"].ops = <<>>
  /\ Offers("A") = {}

\* C34: the server relays an offer, answer or candidate into a room only when
\* its sender is a member of that room: a message of a socket that has not
\* joined the room reaches none of the members
C34_MembersOnlyRelay ==
  [][/\ \A c \in Clients :
          (ServerRecvRelay(c) /\ c \notin rooms[Head(upQ[c]).room]) =>
            \A o \in Clients : Sent(o) = <<>>
     /\ \A z \in Raws, t \in {"offer", "answer", "candidate"}, r \in Rooms :
          (RawSend(z, t, r) /\ z \notin rooms[r]) =>
            \A o \in Clients : Sent(o) = <<>>]_vars

\* C35: once the stable label is a label other than UNKNOWN it is never
\* UNKNOWN again, whatever raw labels follow, and the confidence of the hook
\* and of every event emitted from then on is 0.9, never 0.4 again
C35_NeverUnknownAgain ==
  [][\A c \in Clients :
       StableLabel(cl[c].gest) # "UNKNOWN" =>
         /\ StableLabel(cl'[c].gest) # "UNKNOWN"
         /\ cl'[c].gest.confidence = 9
         /\ cl'[c].gest.lastEvent.confidence = 9]_vars

\* FIST became the stable label and nine UNKNOWN raw labels followed: the
\* voting window holds nothing but UNKNOWN and the stable label is still FIST
C35_Witness ==
  LET g == cl["A"].gest
  IN /\ g.lastGesture = "FIST"
     /\ Len(g.rawLog) >= 12
     /\ \A k \in DOMAIN g.rawLog : k > Len(g.rawLog) - 9 => g.rawLog[k] = "UNKNOWN"
     /\ g.lastEvent.gesture = "FIST" /\ g.lastEvent.confidence = 9

\* the labels recognizeGesture has a branch for and never returns
Shadowed == {"RAISED_FIST", "VICTORY_ALT", "CROSS_FINGERS", "PRAY"}

\* C36: for every normalised frame and motion state the classifier returns
\* none of RAISED_FIST, VICTORY_ALT, CROSS_FINGERS and PRAY: the predicates of
\* the first three imply the one of FIST or PEACE_SIGN, tried before them,
\* and the one of PRAY fails on the wrist, which normalisation puts at x = 0
C36_NeverReturned ==
  \A c \in Clients :
    LET p == cl[c].probe
        landmarks == NormalizeLandmarks(p.landmarks)
    IN p.set =>
         /\ p.done => p.label \notin Shadowed
         /\ IsRaisedFist(landmarks) => IsFist(landmarks)
         /\ IsVictoryAlt(landmarks) => IsPeaceSign(landmarks)
         /\ IsCrossFingers(landmarks) => IsPeaceSign(landmarks)
         /\ lm(landmarks, 0).x = 0 /\ ~IsPrayLike(landmarks)

\* a fist held up, for which the predicate of RAISED_FIST holds, was
\* labelled FIST
C36_Witness ==
  LET p == cl["A"].probe
      landmarks == NormalizeLandmarks(p.landmarks)
  IN /\ p.done /\ p.label = "FIST"
     /\ IsRaisedFist(landmarks)

\* C37: the STOP predicate holds only with at least 10 buffered velocity
\* samples: with fewer, three samples faster than 0.15 put the average speed
\* of the window at 0.05 or more
C37_StopNeedsTen ==
  \A c \in Clients :
    LET p == cl[c].probe
        landmarks == NormalizeLandmarks(p.landmarks)
    IN p.set =>
         /\ IsStop(landmarks, p.velocities) => Len(p.velocities) >= 10
         /\ (p.done /\ p.label = "STOP") => Len(p.velocities) >= 10

\* ten samples, three of them moving, and the classifier answered STOP
C37_Witness ==
  LET p == cl["A"].probe
  IN /\ p.done /\ p.label = "STOP"
     /\ Len(p.velocities) = 10
     /\ Cardinality({k \in 1..10 : p.velocities[k][1].x = Num(16)}) = 3

\* C38: a detection cycle that reports no hand leaves the previous frame and
\* its timestamp, the velocity and frame-history buffers, the raw gesture
\* history, the stable label and the published result as they were and calls
\* no registered handler; of several reported hands only the first one is
\* normalised, stored as the previous frame and classified, once
C38_NoHandFirstHand ==
  [][\A c \in Clients : \A f \in HandFrames :
       LET g == cl[c].gest
           after == cl'[c].gest
           first == HandOf(f.joints, f.ext, f.tip, 0)
       IN OnResults(c, f) =>
            /\ ~f.hand =>
                 /\ after.hasPrev = g.hasPrev
                 /\ after.prevLandmarks = g.prevLandmarks
                 /\ after.prevTimestamp = g.prevTimestamp
                 /\ after.velocities = g.velocities
                 /\ after.velLog = g.velLog
                 /\ after.motionHistory = g.motionHistory
                 /\ after.frameLog = g.frameLog
                 /\ after.gestureHistory = g.gestureHistory
                 /\ after.rawLog = g.rawLog
                 /\ after.lastGesture = g.lastGesture
                 /\ after.currentGesture = g.currentGesture
                 /\ after.detectedText = g.detectedText
                 /\ after.confidence = g.confidence
                 /\ after.lastEvent = g.lastEvent
                 /\ after.callbacks = g.callbacks
                 /\ after.calls = <<>>
            /\ (f.hand /\ f.others # <<>>) =>
                 /\ after.prevLandmarks = NormalizeLandmarks(first)
                 /\ Len(after.frameLog) = Len(g.frameLog) + 1
                 /\ after.frameLog[Len(after.frameLog)].landmarks
                      = NormalizeLandmarks(first)
                 /\ Len(after.rawLog) = Len(g.rawLog) + 1
                 /\ after.rawLog[Len(after.rawLog)]
                      = RecognizeGesture(NormalizeLandmarks(first), after.velocities)
                 /\ Len(after.calls) = Len(g.callbacks)]_vars

\* a handler is registered, the fist is the stable label after three frames
\* with a hand, and the last cycle reported no hand
C38_Witness ==
  LET g == cl["A"].gest
  IN /\ g.callbacks # <<>>
     /\ g.lastGesture = "FIST"
     /\ g.frames > Len(g.frameLog)
     /\ g.calls = <<>>
     /\ g.lastIn.set
     /\ Len(g.rawLog) >= 3

====
